---- MODULE Spec2Model ----
(***************************************************************************)
(* Model of the fooskill backend: the skill service of skill_base.rs       *)
(* (create_user, read_users, create_game) running on optimistic            *)
(* WATCH / MULTI / EXEC transactions against a key-value store, the        *)
(* union-find primitive of merge.rs and the temporal player of player.rs.  *)
(*                                                                         *)
(* Strings are sequences of bytes; a byte is written as a one-character    *)
(* string ("a", ":") or as a token for a byte outside printable ASCII      *)
(* ("x7F", "xC3", "xA9").  Byte gives the numeric value used by the        *)
(* store's lexicographic comparison.                                       *)
(***************************************************************************)
EXTENDS Integers, Sequences, FiniteSets, TLC

VARIABLES
  db,       \* the key-value store: key -> [t, v]
  pc,       \* per connection: position of the running operation
  op,       \* per connection: the running operation and its arguments
  ctx,      \* per connection: UserStoreCtx cache and the state of the running find
  pipe,     \* per connection: the commands queued on the atomic pipeline
  watched,  \* per connection: keys WATCHed on the connection
  dirty,    \* per connection: a watched key was modified since its WATCH
  res,      \* per connection: the value the operation returned
  retries,  \* per connection: aborted EXECs of the running operation
  budget,   \* number of calls the callers may still make
  uids      \* the user ids the callers use

vars == <<db, pc, op, ctx, pipe, watched, dirty, res, retries, budget, uids>>

(***************************************************************************)
(* Bounds                                                                  *)
(***************************************************************************)
MaxCalls == 3
MaxUserCalls == 4
MaxGames == 2
MaxTime == 2

Clients == {"c1", "c2"}

(***************************************************************************)
(* Strings                                                                 *)
(***************************************************************************)
Byte(c) ==
  CASE c = "0" -> 48
    [] c = "1" -> 49
    [] c = "2" -> 50
    [] c = "3" -> 51
    [] c = "4" -> 52
    [] c = "5" -> 53
    [] c = "6" -> 54
    [] c = "7" -> 55
    [] c = "8" -> 56
    [] c = "9" -> 57
    [] c = ":" -> 58
    [] c = "a" -> 97
    [] c = "b" -> 98
    [] c = "c" -> 99
    [] c = "d" -> 100
    [] c = "g" -> 103
    [] c = "x7F" -> 127
    [] c = "xA9" -> 169
    [] c = "xC3" -> 195
    [] OTHER -> 0

RECURSIVE LexLE(_, _)
\* memcmp order of two byte strings, a <= b
LexLE(a, b) ==
  IF a = <<>> THEN TRUE
  ELSE IF b = <<>> THEN FALSE
  ELSE IF Byte(Head(a)) < Byte(Head(b)) THEN TRUE
  ELSE IF Byte(Head(a)) > Byte(Head(b)) THEN FALSE
  ELSE LexLE(Tail(a), Tail(b))

Grp == <<"g">>

U1 == <<"1">>
U2 == <<"2">>
UE == <<"xC3", "xA9">>

AsciiIds == {U1, U2}
WideIds == {UE, U2}

NameAb == <<"a", "b">>
NameAbc == <<"a", "b", "c">>
NameAbd == <<"a", "b", "d">>
Names == {NameAb, NameAbc, NameAbd}

G1 == <<"a">>
G2 == <<"b">>
GameIds == {G1, G2}

Times == 1..MaxTime

(***************************************************************************)
(* Keys of the persisted state                                             *)
(***************************************************************************)
group_key_prefix(group_id) == <<"g", "r", "o", "u", "p", ":">> \o group_id

user_id_key(group_id) ==
  group_key_prefix(group_id) \o <<":", "u", "s", "e", "r", ".", "i", "d">>

user_name_index_key(group_id) ==
  group_key_prefix(group_id)
    \o <<":", "u", "s", "e", "r", ".", "n", "a", "m", "e", ".", "i", "n", "d", "e", "x">>

user_key(group_id, user_id) ==
  group_key_prefix(group_id) \o <<":", "u", "s", "e", "r", ":">> \o user_id

user_games_key(group_id, user_id) ==
  group_key_prefix(group_id)
    \o <<":", "u", "s", "e", "r", ".", "g", "a", "m", "e", "s", ":">> \o user_id

\* game_key that leaves the game id out of the key
game_key_shared(group_id, game_id) ==
  group_key_prefix(group_id) \o <<":", "g", "a", "m", "e", ":">>

game_key(group_id, game_id) ==
  group_key_prefix(group_id) \o <<":", "g", "a", "m", "e", ":">> \o game_id

games_key(group_id) ==
  group_key_prefix(group_id) \o <<":", "g", "a", "m", "e", "s">>

(***************************************************************************)
(* Messages.  The floating point values are kept as terms: two messages    *)
(* are equal when they were computed the same way from the same inputs.    *)
(* NaN stands for a message with a non-finite component.                   *)
(***************************************************************************)
Msg(tag, args, n, m) == [tag |-> tag, args |-> args, n |-> n, m |-> m]

NaN == Msg("nan", <<>>, 0, 0)
JsonNull == Msg("null", <<>>, 0, 0)

\* Message::from_mu_sigma2(default_mean, default_sigma^2)
DefaultSkill == Msg("prior", <<>>, 0, 0)

include(a, b) ==
  IF a = NaN \/ b = NaN THEN NaN ELSE Msg("include", <<a, b>>, 0, 0)

\* DateTime<Utc> is finer than the millisecond that timestamp_millis keeps:
\* the instants of the model are ticks, TicksPerMs of them in a millisecond
TicksPerMs == 2

\* the time in ticks, not in milliseconds
timestamp_ticks(t) == t

timestamp_millis(t) == t \div TicksPerMs

DefaultPlayer == [skill |-> DefaultSkill, datetime |-> 0]

\* skill_at that answers for a time before the player's timestamp as well
skill_at_unchecked(player, query) ==
  IF player.skill = NaN THEN <<NaN>>
  ELSE <<Msg("skill_at", <<player.skill>>, query - player.datetime, 0)>>

\* Option<Message>: <<>> is None, <<m>> is Some(m)
skill_at(player, query) ==
  IF query - player.datetime < 0 THEN <<>>
  ELSE IF player.skill = NaN THEN <<NaN>>
  ELSE <<Msg("skill_at", <<player.skill>>, query - player.datetime, 0)>>

\* set_skill that keeps the former timestamp
set_skill_stale(player, skill, datetime) == [skill |-> skill, datetime |-> player.datetime]

set_skill(player, skill, datetime) == [skill |-> skill, datetime |-> datetime]

\* TrueSkill::tree_pass(left, right, Won): the update of player i of the
\* left (side 0) or right (side 1) team.  An empty team has a performance
\* message (inf, NaN), which makes every update non-finite.
tree_pass_update(side, i, left_team, right_team) ==
  IF left_team = <<>> \/ right_team = <<>> THEN NaN
  ELSE IF \E j \in 1..Len(left_team) : left_team[j] = NaN THEN NaN
  ELSE IF \E j \in 1..Len(right_team) : right_team[j] = NaN THEN NaN
  ELSE Msg("update", left_team \o right_team, Len(left_team), side * 10 + i)

(***************************************************************************)
(* Users, nodes of the union-find forest and their JSON encoding           *)
(***************************************************************************)
User(id, name, player) == [id |-> id, name |-> name, player |-> player]

\* Mergeable::new
Mergeable_new(index, item) == [parent_index |-> index, rank |-> 0, item |-> item]

is_root(node, index) == node.parent_index = index

Game(id, datetime, winner_ids, loser_ids) ==
  [id |-> id, datetime |-> datetime, winner_ids |-> winner_ids, loser_ids |-> loser_ids]

\* serde_json writes a non-finite f64 as null
to_json(node) ==
  IF node.item.player.skill = NaN
    THEN [node EXCEPT !.item.player.skill = JsonNull]
    ELSE node

\* Option<node>: null is not an f64, the decoder fails
from_json(v) ==
  IF v.item.player.skill = JsonNull THEN <<>> ELSE <<v>>

(***************************************************************************)
(* The store: commands and their effect                                    *)
(***************************************************************************)
Cmd(cmd, key, arg, score) == [cmd |-> cmd, key |-> key, arg |-> arg, score |-> score]

EmptyMap == [x \in {} |-> 0]

Put(f, k, v) == (k :> v) @@ f

\* a command inside MULTI/EXEC modifies its key, or (ZADD and SADD of what is
\* already there, or a key of the wrong type) leaves the store as it is
Modifies(d, c) ==
  CASE c.cmd = "SET" -> TRUE
    [] c.cmd = "ZADD" ->
         \/ c.key \notin DOMAIN d
         \/ /\ d[c.key].t = "zset"
            /\ \/ c.arg \notin DOMAIN d[c.key].v
               \/ d[c.key].v[c.arg] # c.score
    [] c.cmd = "SADD" ->
         \/ c.key \notin DOMAIN d
         \/ d[c.key].t = "set" /\ c.arg \notin d[c.key].v
    [] OTHER -> FALSE

Apply(d, c) ==
  IF ~Modifies(d, c) THEN d
  ELSE CASE c.cmd = "SET" -> Put(d, c.key, [t |-> "string", v |-> c.arg])
         [] c.cmd = "ZADD" ->
              Put(d, c.key, [t |-> "zset",
                             v |-> Put(IF c.key \in DOMAIN d THEN d[c.key].v ELSE EmptyMap,
                                       c.arg, c.score)])
         [] c.cmd = "SADD" ->
              Put(d, c.key, [t |-> "set",
                             v |-> (IF c.key \in DOMAIN d THEN d[c.key].v ELSE {}) \cup {c.arg}])
         [] OTHER -> d

RECURSIVE ApplyAll(_, _)
ApplyAll(d, p) == IF p = <<>> THEN d ELSE ApplyAll(Apply(d, Head(p)), Tail(p))

RECURSIVE Touched(_, _)
\* the keys that the commands of p modify when run on d
Touched(d, p) ==
  IF p = <<>> THEN {}
  ELSE (IF Modifies(d, Head(p)) THEN {Head(p).key} ELSE {})
         \cup Touched(Apply(d, Head(p)), Tail(p))

\* GET of a user key, decoded: Option<node>
GetNode(d, key) ==
  IF key \in DOMAIN d /\ d[key].t = "string" THEN from_json(d[key].v) ELSE <<>>

\* ZRANGEBYLEX key [min [max: the members between min and max, both inclusive
zrangebylex(d, key, min, max) ==
  IF key \in DOMAIN d /\ d[key].t = "zset"
    THEN {m \in DOMAIN d[key].v : LexLE(min, m) /\ LexLE(m, max)}
    ELSE {}

(***************************************************************************)
(* Union-find over the store context (merge.rs, UserStoreCtx)              *)
(***************************************************************************)
\* UserStoreCtx::set_node: the cache only
set_node(cache, index, node) == Put(cache, index, node)

RECURSIVE Find_walk_unwritten(_, _, _)
\* the loop of Find::run without the write of the shortened parent pointer
Find_walk_unwritten(cache, index, node) ==
  IF is_root(node, index)
    THEN [k |-> "root", cache |-> cache, index |-> index, node |-> node]
  ELSE IF node.parent_index \notin DOMAIN cache
    THEN [k |-> "fetch", cache |-> cache, index |-> index, node |-> node]
  ELSE Find_walk_unwritten(cache, node.parent_index, cache[node.parent_index])

RECURSIVE Find_walk_parent_slot(_, _, _)
\* the loop of Find::run that writes the shortened node under the key of
\* its parent
Find_walk_parent_slot(cache, index, node) ==
  IF is_root(node, index)
    THEN [k |-> "root", cache |-> cache, index |-> index, node |-> node]
  ELSE IF node.parent_index \notin DOMAIN cache
    THEN [k |-> "fetch", cache |-> cache, index |-> index, node |-> node]
  ELSE LET parent_index == node.parent_index
           parent == cache[parent_index]
           halved == [node EXCEPT !.parent_index = parent.parent_index]
       IN Find_walk_parent_slot(set_node(cache, parent_index, halved), parent_index, parent)

RECURSIVE Find_walk(_, _, _)
\* The loop of Find::run as far as the cache answers get_node: it ends at a
\* root ("root") or at a parent that has to be fetched from the store ("fetch").
Find_walk(cache, index, node) ==
  IF is_root(node, index)
    THEN [k |-> "root", cache |-> cache, index |-> index, node |-> node]
  ELSE IF node.parent_index \notin DOMAIN cache
    THEN [k |-> "fetch", cache |-> cache, index |-> index, node |-> node]
  ELSE LET parent_index == node.parent_index
           parent == cache[parent_index]
           halved == [node EXCEPT !.parent_index = parent.parent_index]
       IN Find_walk(set_node(cache, index, halved), parent_index, parent)

\* Set::run on nodes that the transaction has already read
Set_run(cache, index, item) ==
  IF index \notin DOMAIN cache THEN [ok |-> FALSE, cache |-> cache]
  ELSE LET w == Find_walk(cache, index, cache[index])
       IN IF w.k # "root" THEN [ok |-> FALSE, cache |-> w.cache]
          ELSE [ok |-> TRUE,
                cache |-> set_node(w.cache, w.node.parent_index,
                                   [w.node EXCEPT !.item = item])]

(***************************************************************************)
(* Results and operations                                                  *)
(***************************************************************************)
Res(tag, err, val) == [tag |-> tag, err |-> err, val |-> val]
NoRes == Res("none", "", <<>>)
Ok(val) == Res("ok", "", val)
Err(err, val) == Res("err", err, val)
Panic == Res("panic", "", <<>>)

NoGame == Game(<<>>, 0, <<>>, <<>>)

Op(kind, user_id, name, ids, game) ==
  [kind |-> kind, user_id |-> user_id, name |-> name, ids |-> ids, game |-> game]
NoOp == Op("none", <<>>, <<>>, <<>>, NoGame)

\* the state of the body between two suspension points
Ctx(cache, found, todo, target, index, node, key) ==
  [cache |-> cache, found |-> found, todo |-> todo, target |-> target,
   index |-> index, node |-> node, key |-> key]
EmptyCtx == Ctx(EmptyMap, <<>>, <<>>, <<>>, <<>>, <<>>, <<>>)

Local(p, c, pi, r) == [pc |-> p, ctx |-> c, pipe |-> pi, res |-> r]

RECURSIVE SetToSeq(_)
SetToSeq(S) ==
  IF S = {} THEN <<>>
  ELSE LET x == CHOOSE y \in S : TRUE IN <<x>> \o SetToSeq(S \ {x})

\* append that writes every cached node under the key of the first one
append_first_key(cache, pi) ==
  LET ks == SetToSeq(DOMAIN cache)
  IN pi \o [i \in 1..Len(ks) |->
              Cmd("SET", user_key(Grp, ks[1]), to_json(cache[ks[i]]), 0)]

\* UserStoreCtx::append: one SET per cached node (the keys are distinct, the
\* order in which the map is iterated does not change the effect)
append(cache, pi) ==
  LET ks == SetToSeq(DOMAIN cache)
  IN pi \o [i \in 1..Len(ks) |->
              Cmd("SET", user_key(Grp, ks[i]), to_json(cache[ks[i]]), 0)]

(***************************************************************************)
(* The bodies of the transactions (skill_base.rs)                          *)
(***************************************************************************)
RECURSIVE update_team_unindexed(_, _, _, _, _, _, _)
\* the loops "Update user stats" that queue no ZADD on the games of the user
update_team_unindexed(game, side, users, updates, i, cache, pi) ==
  IF i > Len(users) THEN [ok |-> TRUE, cache |-> cache, pipe |-> pi]
  ELSE LET user == users[i]
           skill == include(skill_at(user.player, game.datetime)[1], updates[i])
           updated == [user EXCEPT !.player = set_skill(user.player, skill, game.datetime)]
           s == Set_run(cache, user.id, updated)
       IN IF ~s.ok THEN [ok |-> FALSE, cache |-> s.cache, pipe |-> pi]
          ELSE update_team_unindexed(game, side, users, updates, i + 1, s.cache, pi)

RECURSIVE update_team(_, _, _, _, _, _, _)
\* The loops "Update user stats" of create_game over one team, from player i
update_team(game, side, users, updates, i, cache, pi) ==
  IF i > Len(users) THEN [ok |-> TRUE, cache |-> cache, pipe |-> pi]
  ELSE LET user == users[i]
           skill == include(skill_at(user.player, game.datetime)[1], updates[i])
           updated == [user EXCEPT !.player = set_skill(user.player, skill, game.datetime)]
           s == Set_run(cache, user.id, updated)
       IN IF ~s.ok THEN [ok |-> FALSE, cache |-> s.cache, pipe |-> pi]
          ELSE update_team(game, side, users, updates, i + 1, s.cache,
                           Append(pi, Cmd("ZADD", user_games_key(Grp, user.id), game.id,
                                          timestamp_millis(game.datetime))))

\* create_game from "Reason about skills" to the end of the body
create_game_finish(game, cache, found) ==
  LET nw == Len(game.winner_ids)
      winners == SubSeq(found, 1, nw)
      losers == SubSeq(found, nw + 1, Len(found))
  IN IF \E i \in 1..Len(found) : skill_at(found[i].player, game.datetime) = <<>>
       THEN Local("done", EmptyCtx, <<>>, Panic)
     ELSE
       LET wskills == [i \in 1..Len(winners) |-> skill_at(winners[i].player, game.datetime)[1]]
           lskills == [i \in 1..Len(losers) |-> skill_at(losers[i].player, game.datetime)[1]]
           wupdates == [i \in 1..Len(winners) |-> tree_pass_update(0, i, wskills, lskills)]
           lupdates == [i \in 1..Len(losers) |-> tree_pass_update(1, i, wskills, lskills)]
           w == update_team(game, 0, winners, wupdates, 1, cache, <<>>)
           l == update_team(game, 1, losers, lupdates, 1, w.cache, w.pipe)
       IN IF ~w.ok \/ ~l.ok
            THEN Local("done", EmptyCtx, <<>>, Err("MissingEntryError", <<>>))
            ELSE Local("exec", EmptyCtx,
                       append(l.cache, l.pipe)
                         \o <<Cmd("SET", game_key(Grp, game.id), game, 0),
                              Cmd("ZADD", games_key(Grp), game.id,
                                  timestamp_millis(game.datetime))>>,
                       Ok(<<game>>))

\* read_users that writes the nodes back with the default Player
read_users_finish_default(cache, found) ==
  Local("exec", EmptyCtx,
        append([u \in DOMAIN cache |-> [cache[u] EXCEPT !.item.player = DefaultPlayer]], <<>>),
        Ok(found))

\* read_users after the last find
read_users_finish(cache, found) ==
  Local("exec", EmptyCtx, append(cache, <<>>), Ok(found))

Finish(o, cache, found) ==
  IF o.kind = "create_game" THEN create_game_finish(o.game, cache, found)
  ELSE read_users_finish(cache, found)

\* a store context that reads the store for every get_node, cached or not
NextFind_uncached(o, cache, found, todo) ==
  IF todo = <<>> THEN Finish(o, cache, found)
  ELSE Local("watch", Ctx(cache, found, Tail(todo), Head(todo), Head(todo), <<>>, Head(todo)),
             <<>>, NoRes)

RECURSIVE NextFind(_, _, _, _)
RECURSIVE AfterWalk(_, _, _, _, _)
\* The body runs until its next read of the store: the find of the next id
\* starts with get_node(id), which the cache answers or which is a WATCH and
\* a GET on the connection.
NextFind(o, cache, found, todo) ==
  IF todo = <<>> THEN Finish(o, cache, found)
  ELSE LET id == Head(todo)
       IN IF id \notin DOMAIN cache
            THEN Local("watch", Ctx(cache, found, Tail(todo), id, id, <<>>, id), <<>>, NoRes)
            ELSE AfterWalk(o, Find_walk(cache, id, cache[id]), found, Tail(todo), id)

\* the users pushed in front of the result instead of behind it
AfterWalk_front(o, w, found, todo, target) ==
  IF w.k = "root" THEN NextFind(o, w.cache, <<w.node.item>> \o found, todo)
  ELSE Local("watch",
             Ctx(w.cache, found, todo, target, w.index, <<w.node>>, w.node.parent_index),
             <<>>, NoRes)

AfterWalk(o, w, found, todo, target) ==
  IF w.k = "root" THEN NextFind(o, w.cache, Append(found, w.node.item), todo)
  ELSE Local("watch",
             Ctx(w.cache, found, todo, target, w.index, <<w.node>>, w.node.parent_index),
             <<>>, NoRes)

\* a GET that finds no node writes back what the transaction has read so far
get_node_fetch_flush(o, d, x) ==
  LET got == GetNode(d, user_key(Grp, x.key))
  IN IF got = <<>>
       THEN Local("exec", EmptyCtx, append(x.cache, <<>>),
                  Err("MissingEntryError", <<x.target>>))
       ELSE LET cache == Put(x.cache, x.key, got[1])
                w == IF x.node = <<>>
                       THEN Find_walk(cache, x.key, got[1])
                       ELSE Find_walk(cache, x.index, x.node[1])
            IN AfterWalk(o, w, x.found, x.todo, x.target)

\* The GET of get_node for the key x.key, read from the store d: the find
\* that waits for it fails, or it goes on and the body runs up to its next
\* suspension point
get_node_fetch(o, d, x) ==
  LET got == GetNode(d, user_key(Grp, x.key))
  IN IF got = <<>>
       THEN Local("done", EmptyCtx, <<>>,
                  IF x.node = <<>>
                    THEN Err("MissingEntryError", <<x.target>>)
                    ELSE Err("NoParentError", <<x.index>>))
       ELSE LET cache == Put(x.cache, x.key, got[1])
                w == IF x.node = <<>>
                       THEN Find_walk(cache, x.key, got[1])
                       ELSE Find_walk(cache, x.index, x.node[1])
            IN AfterWalk(o, w, x.found, x.todo, x.target)

\* One iteration of commit!: a new pipeline, and the body up to its first
\* suspension point
BeginAttempt(o) ==
  CASE o.kind = "create_user" -> Local("cu_watch", EmptyCtx, <<>>, NoRes)
    [] o.kind \in {"read_users", "get_leaderboard"} -> NextFind(o, EmptyMap, <<>>, o.ids)
    [] o.kind = "create_game" ->
         NextFind(o, EmptyMap, <<>>, o.game.winner_ids \o o.game.loser_ids)

\* query_async that runs the queued commands although a watched key changed
query_async_applies(d, p, is_dirty) ==
  [db |-> ApplyAll(d, p), reply |-> IF is_dirty THEN <<>> ELSE <<"ok">>]

\* Pipeline::query_async of an atomic pipeline: MULTI, the commands, EXEC.
\* The reply is <<>> (nil) when a watched key was modified.
query_async(d, p, is_dirty) ==
  IF is_dirty THEN [db |-> d, reply |-> <<>>]
  ELSE [db |-> ApplyAll(d, p), reply |-> <<"ok">>]

(***************************************************************************)
(* Inputs                                                                  *)
(***************************************************************************)
Teams(U) == {<<>>} \cup {<<u>> : u \in U}

TeamPairs(U) == Teams(U) \X Teams(U)

\* games of one player against one player (a player may be named twice)
SoloPairs(U) == {p \in TeamPairs(U) : p[1] # <<>> /\ p[2] # <<>>}

\* the teams of a game: U1 beats U2, U1 is named on both sides, nobody wins
GamePairs == {<<<<U1>>, <<U2>>>>, <<<<U1>>, <<U1>>>>, <<<<>>, <<U1>>>>}

ReadLists(U) == {<<u>> : u \in U} \cup {SetToSeq(U)}

(***************************************************************************)
(* State after construction: an empty store, idle connections              *)
(***************************************************************************)
InitWith(d, U, n) ==
  /\ db = d
  /\ pc = [c \in Clients |-> "idle"]
  /\ op = [c \in Clients |-> NoOp]
  /\ ctx = [c \in Clients |-> EmptyCtx]
  /\ pipe = [c \in Clients |-> <<>>]
  /\ watched = [c \in Clients |-> {}]
  /\ dirty = [c \in Clients |-> FALSE]
  /\ res = [c \in Clients |-> NoRes]
  /\ retries = [c \in Clients |-> 0]
  /\ budget = n
  /\ uids = U

Init == InitWith(EmptyMap, AsciiIds, MaxCalls)

\* a pipeline that is created once for the call and not once for the attempt
SetLocal_one_pipe(c, l) ==
  /\ pc' = [pc EXCEPT ![c] = l.pc]
  /\ ctx' = [ctx EXCEPT ![c] = l.ctx]
  /\ pipe' = [pipe EXCEPT ![c] = IF l.pc = "idle" THEN <<>> ELSE @ \o l.pipe]
  /\ res' = [res EXCEPT ![c] = l.res]

SetLocal(c, l) ==
  /\ pc' = [pc EXCEPT ![c] = l.pc]
  /\ ctx' = [ctx EXCEPT ![c] = l.ctx]
  /\ pipe' = [pipe EXCEPT ![c] = l.pipe]
  /\ res' = [res EXCEPT ![c] = l.res]

\* a caller takes an idle connection for a new call
Take(c) ==
  /\ pc[c] = "idle"
  /\ budget > 0
  /\ budget' = budget - 1
  /\ retries' = [retries EXCEPT ![c] = 0]

(***************************************************************************)
(* Calls                                                                   *)
(***************************************************************************)
\* create_user that accepts a name of two bytes
create_user_call_short(c, user_id, name) ==
  /\ Take(c)
  /\ op' = [op EXCEPT ![c] = Op("create_user", user_id, name, <<>>, NoGame)]
  /\ IF Len(name) < 2
       THEN SetLocal(c, Local("done", EmptyCtx, <<>>, Err("UserNameTooShort", <<>>)))
       ELSE SetLocal(c, BeginAttempt(Op("create_user", user_id, name, <<>>, NoGame)))
  /\ UNCHANGED <<db, watched, dirty, uids>>

\* create_user up to the first WATCH
create_user_call(c, user_id, name) ==
  /\ Take(c)
  /\ op' = [op EXCEPT ![c] = Op("create_user", user_id, name, <<>>, NoGame)]
  /\ IF Len(name) < 3
       THEN SetLocal(c, Local("done", EmptyCtx, <<>>, Err("UserNameTooShort", <<>>)))
       ELSE SetLocal(c, BeginAttempt(Op("create_user", user_id, name, <<>>, NoGame)))
  /\ UNCHANGED <<db, watched, dirty, uids>>

\* read_users up to the first WATCH
read_users_call(c, user_ids) ==
  /\ Take(c)
  /\ op' = [op EXCEPT ![c] = Op("read_users", <<>>, <<>>, user_ids, NoGame)]
  /\ SetLocal(c, BeginAttempt(Op("read_users", <<>>, <<>>, user_ids, NoGame)))
  /\ UNCHANGED <<db, watched, dirty, uids>>

\* create_game up to the first WATCH
create_game_call(c, game_id, winner_ids, loser_ids, datetime) ==
  /\ Take(c)
  /\ LET o == Op("create_game", <<>>, <<>>, <<>>,
                 Game(game_id, datetime, winner_ids, loser_ids))
     IN /\ op' = [op EXCEPT ![c] = o]
        /\ SetLocal(c, BeginAttempt(o))
  /\ UNCHANGED <<db, watched, dirty, uids>>

(***************************************************************************)
(* Steps on the connection                                                 *)
(***************************************************************************)
\* create_user: WATCH of the user key
create_user_watch(c) ==
  /\ pc[c] = "cu_watch"
  /\ watched' = [watched EXCEPT ![c] = @ \cup {user_key(Grp, op[c].user_id)}]
  /\ pc' = [pc EXCEPT ![c] = "cu_scan"]
  /\ UNCHANGED <<db, op, ctx, pipe, dirty, res, retries, budget, uids>>

\* the index entries that make create_user fail
create_user_entries(d, name) ==
  zrangebylex(d, user_name_index_key(Grp), name \o <<":">>, name \o <<":", "x7F">>)

\* create_user that queues no entry of the name index
create_user_pipe_noindex(user_id, name) ==
  <<Cmd("SET", user_key(Grp, user_id),
        to_json(Mergeable_new(user_id, User(user_id, name, DefaultPlayer))), 0),
    Cmd("SADD", user_id_key(Grp), user_id, 0)>>

\* the commands create_user queues
create_user_pipe(user_id, name) ==
  <<Cmd("SET", user_key(Grp, user_id),
        to_json(Mergeable_new(user_id, User(user_id, name, DefaultPlayer))), 0),
    Cmd("ZADD", user_name_index_key(Grp), name \o <<":">> \o user_id, 0),
    Cmd("SADD", user_id_key(Grp), user_id, 0)>>

\* create_user: the scan of the name index and the rest of the body
create_user_scan(c) ==
  /\ pc[c] = "cu_scan"
  /\ IF create_user_entries(db, op[c].name) # {}
       THEN SetLocal(c, Local("done", EmptyCtx, <<>>, Err("UserAlreadyExists", <<>>)))
       ELSE SetLocal(c, Local("exec", EmptyCtx,
                              create_user_pipe(op[c].user_id, op[c].name),
                              Ok(<<User(op[c].user_id, op[c].name, DefaultPlayer)>>)))
  /\ UNCHANGED <<db, op, watched, dirty, retries, budget, uids>>

\* get_node that reads the user key without a WATCH before the GET
get_node_nowatch(c) ==
  /\ pc[c] = "watch"
  /\ pc' = [pc EXCEPT ![c] = "get"]
  /\ UNCHANGED <<db, op, ctx, pipe, watched, dirty, res, retries, budget, uids>>

\* get_node that WATCHes the key of the user's games instead of the user key
get_node_watch_games(c) ==
  /\ pc[c] = "watch"
  /\ watched' = [watched EXCEPT ![c] = @ \cup {user_games_key(Grp, ctx[c].key)}]
  /\ pc' = [pc EXCEPT ![c] = "get"]
  /\ UNCHANGED <<db, op, ctx, pipe, dirty, res, retries, budget, uids>>

\* UserStoreCtx::get_node on a cache miss: WATCH of the user key
get_node_watch(c) ==
  /\ pc[c] = "watch"
  /\ watched' = [watched EXCEPT ![c] = @ \cup {user_key(Grp, ctx[c].key)}]
  /\ pc' = [pc EXCEPT ![c] = "get"]
  /\ UNCHANGED <<db, op, ctx, pipe, dirty, res, retries, budget, uids>>

\* UserStoreCtx::get_node on a cache miss: GET of the user key, and the body
\* up to its next suspension point
get_node_get(c) ==
  /\ pc[c] = "get"
  /\ SetLocal(c, get_node_fetch(op[c], db, ctx[c]))
  /\ UNCHANGED <<db, op, watched, dirty, retries, budget, uids>>

\* where the call goes on after commit! has returned Ok: get_leaderboard
\* sorts what read_users has returned, the other calls return
after_commit(o) == IF o.kind = "get_leaderboard" THEN "lb_sort" ELSE "done"

\* EXEC that succeeds although a watched key was modified
exec_commit_unwatched(c) ==
  /\ pc[c] = "exec"
  /\ pipe[c] # <<>>
  /\ db' = ApplyAll(db, pipe[c])
  /\ dirty' = [k \in Clients |->
                 IF k = c THEN FALSE
                 ELSE dirty[k] \/ (watched[k] \cap Touched(db, pipe[c]) # {})]
  /\ watched' = [watched EXCEPT ![c] = {}]
  /\ pc' = [pc EXCEPT ![c] = "done"]
  /\ pipe' = [pipe EXCEPT ![c] = <<>>]
  /\ UNCHANGED <<op, ctx, res, retries, budget, uids>>

\* commit!: the pipeline is executed and EXEC succeeds
exec_commit(c) ==
  /\ pc[c] = "exec"
  /\ pipe[c] # <<>>
  /\ LET r == query_async(db, pipe[c], dirty[c])
     IN /\ r.reply # <<>>
        /\ db' = r.db
        /\ dirty' = [k \in Clients |->
                       IF k = c THEN FALSE
                       ELSE dirty[k] \/ (watched[k] \cap Touched(db, pipe[c]) # {})]
  /\ watched' = [watched EXCEPT ![c] = {}]
  /\ pc' = [pc EXCEPT ![c] = after_commit(op[c])]
  /\ pipe' = [pipe EXCEPT ![c] = <<>>]
  /\ UNCHANGED <<op, ctx, res, retries, budget, uids>>

\* commit! that gives up when EXEC reports that a watched key changed
exec_abort_returns(c) ==
  /\ pc[c] = "exec"
  /\ pipe[c] # <<>>
  /\ LET r == query_async(db, pipe[c], dirty[c])
     IN /\ r.reply = <<>>
        /\ db' = r.db
  /\ watched' = [watched EXCEPT ![c] = {}]
  /\ dirty' = [dirty EXCEPT ![c] = FALSE]
  /\ SetLocal(c, Local("done", EmptyCtx, <<>>, Err("MissingEntryError", <<>>)))
  /\ UNCHANGED <<op, retries, budget, uids>>

\* commit! that sends the same pipeline again when EXEC reports that a
\* watched key changed
exec_abort_resend(c) ==
  /\ pc[c] = "exec"
  /\ pipe[c] # <<>>
  /\ LET r == query_async(db, pipe[c], dirty[c])
     IN /\ r.reply = <<>>
        /\ db' = r.db
  /\ watched' = [watched EXCEPT ![c] = {}]
  /\ dirty' = [dirty EXCEPT ![c] = FALSE]
  /\ retries' = [retries EXCEPT ![c] = @ + 1]
  /\ UNCHANGED <<pc, ctx, pipe, res, op, budget, uids>>

\* commit!: EXEC reports that a watched key changed, the loop starts again
exec_abort(c) ==
  /\ pc[c] = "exec"
  /\ pipe[c] # <<>>
  /\ LET r == query_async(db, pipe[c], dirty[c])
     IN /\ r.reply = <<>>
        /\ db' = r.db
  /\ watched' = [watched EXCEPT ![c] = {}]
  /\ dirty' = [dirty EXCEPT ![c] = FALSE]
  /\ retries' = [retries EXCEPT ![c] = @ + 1]
  /\ SetLocal(c, BeginAttempt(op[c]))
  /\ UNCHANGED <<op, budget, uids>>

\* the caller takes the result; the connection goes back to the pool
return(c) ==
  /\ pc[c] = "done"
  /\ op' = [op EXCEPT ![c] = NoOp]
  /\ retries' = [retries EXCEPT ![c] = 0]
  /\ SetLocal(c, Local("idle", EmptyCtx, <<>>, NoRes))
  /\ UNCHANGED <<db, watched, dirty, budget, uids>>

\* the caller drops the operation at a suspension point: what is queued on
\* the pipeline is never sent
abandon(c) ==
  /\ pc[c] \in {"cu_watch", "cu_scan", "watch", "get", "exec"}
  /\ op' = [op EXCEPT ![c] = NoOp]
  /\ retries' = [retries EXCEPT ![c] = 0]
  /\ SetLocal(c, Local("idle", EmptyCtx, <<>>, NoRes))
  /\ UNCHANGED <<db, watched, dirty, budget, uids>>

CreateUser == \E c \in Clients, u \in uids, n \in Names : create_user_call(c, u, n)
ReadUsers == \E c \in Clients : \E l \in ReadLists(uids) : read_users_call(c, l)
CreateGame ==
  \E c \in Clients, g \in GameIds, t \in Times :
    \E p \in GamePairs : create_game_call(c, g, p[1], p[2], t)
\* the games of the full specification: one game id, one player a side
CreateSoloGame ==
  \E c \in Clients, t \in Times :
    \E p \in SoloPairs(uids) : create_game_call(c, G1, p[1], p[2], t)
CuWatch == \E c \in Clients : create_user_watch(c)
CuScan == \E c \in Clients : create_user_scan(c)
Watch == \E c \in Clients : get_node_watch(c)
Get == \E c \in Clients : get_node_get(c)
ExecCommit == \E c \in Clients : exec_commit(c)
ExecAbort == \E c \in Clients : exec_abort(c)
Return == \E c \in Clients : return(c)
Abandon == \E c \in Clients : abandon(c)

Next ==
  \/ CreateUser
  \/ ReadUsers
  \/ CreateSoloGame
  \/ CuWatch
  \/ CuScan
  \/ Watch
  \/ Get
  \/ ExecCommit
  \/ ExecAbort
  \/ Return
  \/ Abandon

Spec == Init /\ [][Next]_vars

(***************************************************************************)
(* The user operations alone                                               *)
(***************************************************************************)
InitUsers == InitWith(EmptyMap, AsciiIds, MaxUserCalls)

NextUsers ==
  \/ CreateUser
  \/ ReadUsers
  \/ CuWatch
  \/ CuScan
  \/ Watch
  \/ Get
  \/ ExecCommit
  \/ ExecAbort
  \/ Return
  \/ Abandon

SpecUsers == InitUsers /\ [][NextUsers]_vars

\* the same with a user id that does not start with an ASCII byte
InitWide == InitWith(EmptyMap, WideIds, MaxUserCalls)

SpecWide == InitWide /\ [][NextUsers]_vars

(***************************************************************************)
(* Games between the two users of a group                                  *)
(***************************************************************************)
\* the store after create_user(U1, "abc") and create_user(U2, "abd")
TwoUsers ==
  ApplyAll(ApplyAll(EmptyMap, create_user_pipe(U1, NameAbc)), create_user_pipe(U2, NameAbd))

InitGames == InitWith(TwoUsers, AsciiIds, MaxGames)

NextGames ==
  \/ ReadUsers
  \/ CreateGame
  \/ Watch
  \/ Get
  \/ ExecCommit
  \/ ExecAbort
  \/ Return
  \/ Abandon

SpecGames == InitGames /\ [][NextGames]_vars

(***************************************************************************)
(* What the properties talk about                                          *)
(***************************************************************************)
HasUser(d, u) == user_key(Grp, u) \in DOMAIN d

\* the node stored under the user key of u, as it is written in the store
StoredNode(d, u) == d[user_key(Grp, u)].v

HasGame(d, g) == game_key(Grp, g) \in DOMAIN d

StoredGame(d, g) == d[game_key(Grp, g)].v

\* the members of a sorted set and of a set
Members(d, key) == IF key \in DOMAIN d THEN DOMAIN d[key].v ELSE {}

SMembers(d, key) == IF key \in DOMAIN d THEN d[key].v ELSE {}

\* the step is a step of connection c
Acts(c) == pc'[c] # pc[c]

\* the step is the successful EXEC of connection c
Commits(c) == pc[c] = "exec" /\ pc'[c] = "done"

RECURSIVE RunBody(_, _, _)
\* the body of operation o run on the store d without interruption
RunBody(o, d, l) ==
  IF l.pc # "watch" THEN l ELSE RunBody(o, d, get_node_fetch(o, d, l.ctx))

\* what read_users(ids) returns on the store d
read_users_on(d, ids) ==
  LET o == Op("read_users", <<>>, <<>>, ids, NoGame)
  IN RunBody(o, d, BeginAttempt(o)).res

(***************************************************************************)
(* C3: within one group no two distinct user ids carry the same name, in   *)
(* every reachable state and for every interleaving.                       *)
(***************************************************************************)
C3_UniqueNames ==
  \A u \in uids, v \in uids :
    (u # v /\ HasUser(db, u) /\ HasUser(db, v))
      => StoredNode(db, u).item.name # StoredNode(db, v).item.name

(***************************************************************************)
(* C8: the successful EXEC of create_user(user_id, name) makes, in one     *)
(* step, the user key hold the root node (parent_index = user_id, rank 0)  *)
(* of the user with the default Player, the name index contain             *)
(* "{name}:{user_id}" and the user-id set contain user_id; read_users of   *)
(* that id on the resulting store returns the user that create_user        *)
(* returns.                                                                *)
(***************************************************************************)
C8_CreateUserPublishes ==
  [][\A c \in Clients :
       (op[c].kind = "create_user" /\ Commits(c)) =>
         LET u == op[c].user_id
             n == op[c].name
             user == [id |-> u, name |-> n,
                      player |-> [skill |-> DefaultSkill, datetime |-> 0]]
         IN /\ HasUser(db', u)
            /\ StoredNode(db', u) = [parent_index |-> u, rank |-> 0, item |-> user]
            /\ (n \o <<":">> \o u) \in Members(db', user_name_index_key(Grp))
            /\ ~((n \o <<":">> \o u) \in Members(db, user_name_index_key(Grp)))
            /\ u \in SMembers(db', user_id_key(Grp))
            /\ read_users_on(db', <<u>>) = Ok(<<user>>)
            /\ res'[c] = Ok(<<user>>)]_vars

\* a create_user has returned with success and a following read_users of its
\* id has returned the user
C8_Witness ==
  \E c \in Clients, k \in Clients :
    /\ op[c].kind = "create_user"
    /\ pc[c] = "done"
    /\ res[c].tag = "ok"
    /\ HasUser(db, op[c].user_id)
    /\ op[k].kind = "read_users"
    /\ op[k].ids = <<op[c].user_id>>
    /\ pc[k] = "done"
    /\ res[k] = res[c]

(***************************************************************************)
(* C9: once the name index holds an entry "{name}:{id}" of a created user, *)
(* a create_user with that name that scans the index fails with            *)
(* UserAlreadyExists at once (no retry) and leaves the store unchanged.    *)
(***************************************************************************)
NameCreated(d, name) ==
  \E u \in uids : (name \o <<":">> \o u) \in Members(d, user_name_index_key(Grp))

C9_DuplicateNameFails ==
  [][\A c \in Clients :
       (/\ op[c].kind = "create_user"
        /\ pc[c] = "cu_scan"
        /\ Acts(c)
        /\ pc'[c] # "idle"
        /\ NameCreated(db, op[c].name))
       => /\ pc'[c] = "done"
          /\ res'[c] = Err("UserAlreadyExists", <<>>)
          /\ retries'[c] = retries[c]
          /\ db' = db]_vars

(***************************************************************************)
(* C10: create_user with a name of fewer than 3 bytes returns              *)
(* UserNameTooShort in the call itself: no key is WATCHed, nothing is read *)
(* or queued, and the store is unchanged.                                  *)
(***************************************************************************)
C10_NameTooShort ==
  [][\A c \in Clients :
       (op'[c].kind = "create_user" /\ Len(op'[c].name) < 3) =>
         /\ pc'[c] = "done"
         /\ res'[c] = Err("UserNameTooShort", <<>>)
         /\ pipe'[c] = <<>>
         /\ watched'[c] = watched[c]
         /\ (Acts(c) => db' = db)]_vars

C10_Witness ==
  \E c \in Clients :
    /\ op[c].kind = "create_user"
    /\ Len(op[c].name) < 3
    /\ res[c] = Err("UserNameTooShort", <<>>)

(***************************************************************************)
(* Games                                                                   *)
(***************************************************************************)
\* the user ids a game names
Participants(game) ==
  {game.winner_ids[i] : i \in 1..Len(game.winner_ids)}
    \cup {game.loser_ids[i] : i \in 1..Len(game.loser_ids)}

\* create_game(game) run alone on the store d: the body, and the store
\* after its EXEC
create_game_on(d, game) ==
  LET o == Op("create_game", <<>>, <<>>, <<>>, game)
      l == RunBody(o, d, BeginAttempt(o))
  IN [ok |-> l.pc = "exec", db |-> IF l.pc = "exec" THEN ApplyAll(d, l.pipe) ELSE d]

\* every write of create_game(game) is in the store d
GameWritten(d, game) ==
  /\ HasGame(d, game.id)
  /\ StoredGame(d, game.id) = game
  /\ game.id \in Members(d, games_key(Grp))
  /\ d[games_key(Grp)].v[game.id] = timestamp_millis(game.datetime)
  /\ \A u \in Participants(game) :
       /\ game.id \in Members(d, user_games_key(Grp, u))
       /\ HasUser(d, u)
       /\ StoredNode(d, u).item.player.datetime = game.datetime

(***************************************************************************)
(* C1: create_game is all-or-nothing.  A step of a create_game that is not *)
(* its successful EXEC (a WATCH, a GET, an aborted EXEC, the caller        *)
(* dropping the call) leaves the whole store as it was; its successful     *)
(* EXEC puts the game key, the games entry, the per-user games entries and *)
(* the user keys of all participants into the store in that one step.      *)
(***************************************************************************)
C1_AllOrNothing ==
  [][\A c \in Clients :
       (op[c].kind = "create_game" /\ Acts(c)) =>
         IF Commits(c)
           THEN /\ GameWritten(db', op[c].game)
                /\ db' = ApplyAll(db, pipe[c])
           ELSE db' = db]_vars

\* a create_game whose EXEC was aborted is running again, and its game is
\* not in the store
C1_Witness ==
  \E c \in Clients :
    /\ op[c].kind = "create_game"
    /\ retries[c] > 0
    /\ pc[c] \in {"watch", "get", "exec"}
    /\ ~HasGame(db, op[c].game.id)

\* the stores that two games leave when they run one after the other, both
\* with success, in one of the two orders
SerialStores(d, g, h) ==
  LET gh == create_game_on(create_game_on(d, g).db, h)
      hg == create_game_on(create_game_on(d, h).db, g)
  IN (IF create_game_on(d, g).ok /\ gh.ok THEN {gh.db} ELSE {})
       \cup (IF create_game_on(d, h).ok /\ hg.ok THEN {hg.db} ELSE {})

\* both connections have returned from a create_game with success, and no
\* other call was made
BothGamesDone ==
  /\ budget = MaxGames - 2
  /\ \A c \in Clients :
       op[c].kind = "create_game" /\ pc[c] = "done" /\ res[c].tag = "ok"

(***************************************************************************)
(* C2: no lost update between concurrent games.  When a create_game        *)
(* commits a change to a user key that another connection has WATCHed,     *)
(* that connection is marked; the EXEC of a marked create_game aborts      *)
(* without a write and its body starts again from its first read; a        *)
(* create_game commits only the writes that its body computes from the     *)
(* store as it is at the commit; and when two concurrent games have both   *)
(* returned, every user's stored node is the one that the two games        *)
(* produce when applied one after the other in one of the two orders.      *)
(***************************************************************************)
C2_NoLostUpdate ==
  [][/\ \A c \in Clients :
          op[c].kind = "create_game" =>
            /\ Commits(c) =>
                 /\ ~dirty[c]
                 /\ create_game_on(db, op[c].game).ok
                 /\ db' = create_game_on(db, op[c].game).db
                 /\ \A k \in Clients \ {c} : \A u \in uids :
                      (/\ user_key(Grp, u) \in watched[k]
                       /\ StoredNode(db', u) # StoredNode(db, u))
                        => dirty'[k]
            /\ (pc[c] = "exec" /\ dirty[c] /\ Acts(c) /\ pc'[c] # "idle") =>
                 /\ db' = db
                 /\ retries'[c] = retries[c] + 1
                 /\ watched'[c] = {}
                 /\ pc'[c] = BeginAttempt(op[c]).pc
                 /\ ctx'[c] = BeginAttempt(op[c]).ctx
     /\ BothGamesDone =>
          \E s \in SerialStores(TwoUsers, op["c1"].game, op["c2"].game) :
            \A u \in uids : StoredNode(db, u) = StoredNode(s, u)]_vars

\* two games that share a participant have both returned, one of them after
\* an aborted EXEC
C2_Witness ==
  /\ BothGamesDone
  /\ Participants(op["c1"].game) \cap Participants(op["c2"].game) # {}
  /\ \E c \in Clients : retries[c] > 0

(***************************************************************************)
(* C6 as stated: once a game key is written, the stored Game is never      *)
(* changed or removed by a later operation, create_game with the same      *)
(* game_id included.                                                       *)
(***************************************************************************)
C6_GameImmutable ==
  [][\A g \in GameIds :
       HasGame(db, g) => (HasGame(db', g) /\ StoredGame(db', g) = StoredGame(db, g))]_vars

(***************************************************************************)
(* C6: a stored game is never removed, and it changes only in the          *)
(* successful EXEC of a create_game called with the same game_id, which    *)
(* replaces it by the game of that call.                                   *)
(***************************************************************************)
C6_GameOverwrittenOnlyBySameId ==
  [][\A g \in GameIds :
       HasGame(db, g) =>
         /\ HasGame(db', g)
         /\ StoredGame(db', g) # StoredGame(db, g) =>
              \E c \in Clients :
                /\ op[c].kind = "create_game"
                /\ Commits(c)
                /\ op[c].game.id = g
                /\ StoredGame(db', g) = op[c].game]_vars

\* two create_game calls with the same game_id and different games have both
\* returned with success, and the store holds the game of one of them
C6_Witness ==
  \E c \in Clients, k \in Clients :
    /\ \A x \in {c, k} :
         op[x].kind = "create_game" /\ pc[x] = "done" /\ res[x].tag = "ok"
    /\ op[c].game.id = op[k].game.id
    /\ op[c].game # op[k].game
    /\ HasGame(db, op[c].game.id)
    /\ StoredGame(db, op[c].game.id) = op[c].game

(***************************************************************************)
(* C7: every Game stored by create_game has a non-empty winner_ids list, a *)
(* non-empty loser_ids list, and no user id in both lists.                 *)
(***************************************************************************)
C7_ValidTeams ==
  \A g \in GameIds :
    HasGame(db, g) =>
      LET game == StoredGame(db, g)
      IN /\ game.winner_ids # <<>>
         /\ game.loser_ids # <<>>
         /\ \A i \in 1..Len(game.winner_ids) : \A j \in 1..Len(game.loser_ids) :
              game.winner_ids[i] # game.loser_ids[j]

(***************************************************************************)
(* Users over time                                                         *)
(***************************************************************************)
\* the step is the successful EXEC of a create_user called with the id u
CreatesUser(u) ==
  \E c \in Clients : op[c].kind = "create_user" /\ Commits(c) /\ op[c].user_id = u

\* the step is the successful EXEC of a create_game that names u
PlaysGame(u) ==
  \E c \in Clients :
    op[c].kind = "create_game" /\ Commits(c) /\ u \in Participants(op[c].game)

C11_ReadUsersInOrder ==
  [][\A c \in Clients :
       op[c].kind = "read_users" =>
         /\ (Acts(c) /\ pc'[c] \in {"exec", "done"} /\ res'[c].tag = "ok") =>
              /\ Len(res'[c].val) = Len(op[c].ids)
              /\ \A i \in 1..Len(op[c].ids) : res'[c].val[i].id = op[c].ids[i]
         /\ Commits(c) =>
              \A i \in 1..Len(op[c].ids) :
                /\ HasUser(db, op[c].ids[i])
                /\ res'[c].val[i] = StoredNode(db, op[c].ids[i]).item
         /\ (pc[c] = "get" /\ Acts(c) /\ pc'[c] # "idle"
               /\ ~HasUser(db, ctx[c].key)) =>
              /\ pc'[c] = "done"
              /\ res'[c] = Err("MissingEntryError", <<ctx[c].key>>)
              /\ ctx[c].key \in {op[c].ids[i] : i \in 1..Len(op[c].ids)}
              /\ db' = db]_vars

\* a read_users of two ids has returned both users, and a read_users that
\* asked for an id without a user key has failed
C11_Witness ==
  \E c \in Clients, k \in Clients :
    /\ op[c].kind = "read_users"
    /\ Len(op[c].ids) = 2
    /\ pc[c] = "done"
    /\ res[c].tag = "ok"
    /\ op[k].kind = "read_users"
    /\ pc[k] = "done"
    /\ res[k].err = "MissingEntryError"

(***************************************************************************)
(* C12: a create_game that names an id without a user key ends, at the GET *)
(* of that key, with MissingEntryError of that id (the service's           *)
(* NotFound): the call is not retried, nothing is queued or executed, and  *)
(* the store (game key, games entry, per-user games entries, user nodes,   *)
(* those of the participants found before included) stays as it was.       *)
(***************************************************************************)
C12_GameOfUnknownUserFails ==
  [][\A c \in Clients :
       (/\ op[c].kind = "create_game"
        /\ pc[c] = "get"
        /\ Acts(c)
        /\ pc'[c] # "idle"
        /\ ~HasUser(db, ctx[c].key))
       => /\ pc'[c] = "done"
          /\ res'[c] = Err("MissingEntryError", <<ctx[c].key>>)
          /\ ctx[c].key \in Participants(op[c].game)
          /\ pipe'[c] = <<>>
          /\ retries'[c] = retries[c]
          /\ db' = db]_vars

\* a create_game has failed on its second participant after it had found
\* the first one
C12_Witness ==
  \E c \in Clients :
    /\ op[c].kind = "create_game"
    /\ pc[c] = "done"
    /\ res[c].err = "MissingEntryError"
    /\ op[c].game.winner_ids # <<>>
    /\ HasUser(db, op[c].game.winner_ids[1])
    /\ res[c].val # <<op[c].game.winner_ids[1]>>
    /\ ~HasGame(db, op[c].game.id)

\* the score of the member m of the sorted set under key, <<>> when absent
zscore(d, key, m) ==
  IF key \in DOMAIN d /\ d[key].t = "zset" /\ m \in DOMAIN d[key].v
    THEN <<d[key].v[m]>>
    ELSE <<>>

(***************************************************************************)
(* C13: after the successful EXEC of create_game(game_id, winners, losers, *)
(* at_time) the game key holds the Game, the games zset of the group holds *)
(* game_id with the score at_time in milliseconds, and the per-user games  *)
(* zset of every participant holds game_id with the same score.            *)
(***************************************************************************)
C13_GameIndexed ==
  [][\A c \in Clients :
       (op[c].kind = "create_game" /\ Commits(c)) =>
         LET game == op[c].game
             ms == game.datetime \div TicksPerMs
         IN /\ game_key(Grp, game.id) \in DOMAIN db'
            /\ db'[game_key(Grp, game.id)] = [t |-> "string", v |-> game]
            /\ zscore(db', games_key(Grp), game.id) = <<ms>>
            /\ \A u \in Participants(game) :
                 zscore(db', user_games_key(Grp, u), game.id) = <<ms>>
            /\ \A u \in uids \ Participants(game) :
                 zscore(db', user_games_key(Grp, u), game.id)
                   = zscore(db, user_games_key(Grp, u), game.id)]_vars

\* a game between two users is stored and indexed under a score that is not
\* its time in ticks
C13_Witness ==
  \E c \in Clients :
    /\ op[c].kind = "create_game"
    /\ pc[c] = "done"
    /\ res[c].tag = "ok"
    /\ Cardinality(Participants(op[c].game)) = 2
    /\ HasGame(db, op[c].game.id)
    /\ zscore(db, games_key(Grp), op[c].game.id) # <<op[c].game.datetime>>
    /\ zscore(db, games_key(Grp), op[c].game.id) # <<>>

\* the skills of a team at the time of the game, read from the store d
TeamSkills(d, ids, datetime) ==
  [i \in 1..Len(ids) |-> skill_at(StoredNode(d, ids[i]).item.player, datetime)[1]]

\* the updates that tree_pass gives to the user u of the game: one for each
\* place that u has in the winners (side 0) and in the losers (side 1)
UpdatesOf(d, game, u) ==
  LET w == TeamSkills(d, game.winner_ids, game.datetime)
      l == TeamSkills(d, game.loser_ids, game.datetime)
  IN {tree_pass_update(0, i, w, l) :
        i \in {j \in 1..Len(game.winner_ids) : game.winner_ids[j] = u}}
       \cup {tree_pass_update(1, i, w, l) :
               i \in {j \in 1..Len(game.loser_ids) : game.loser_ids[j] = u}}

\* a message as the store holds it
Stored(m) == IF m = NaN THEN JsonNull ELSE m

(***************************************************************************)
(* C14: the successful EXEC of a create_game with time at_time leaves, for *)
(* every participant, a stored Player whose timestamp is at_time and whose *)
(* skill is include(skill_at(at_time), update) of the Player that the      *)
(* committing attempt has read (the one in the store at the EXEC), with    *)
(* the name and the id as they were; the node of every user that is not a  *)
(* participant is unchanged.                                               *)
(***************************************************************************)
C14_PlayersUpdated ==
  [][\A c \in Clients :
       (op[c].kind = "create_game" /\ Commits(c)) =>
         LET game == op[c].game
         IN /\ \A u \in Participants(game) :
                 /\ HasUser(db, u) /\ HasUser(db', u)
                 /\ StoredNode(db', u).item.player.datetime = game.datetime
                 /\ \E upd \in UpdatesOf(db, game, u) :
                      StoredNode(db', u).item.player.skill
                        = Stored(include(
                            skill_at(StoredNode(db, u).item.player, game.datetime)[1], upd))
                 /\ StoredNode(db', u).item.name = StoredNode(db, u).item.name
                 /\ StoredNode(db', u).item.id = u
            /\ \A u \in uids \ Participants(game) :
                 HasUser(db, u) => (HasUser(db', u) /\ StoredNode(db', u) = StoredNode(db, u))]_vars

\* a second game of a user has committed at a later time: what it read was
\* the Player that the first game wrote
C14_Witness ==
  \E c \in Clients, u \in uids :
    /\ op[c].kind = "create_game"
    /\ pc[c] = "done"
    /\ res[c].tag = "ok"
    /\ u \in Participants(op[c].game)
    /\ HasUser(db, u)
    /\ StoredNode(db, u).item.player.datetime = op[c].game.datetime
    /\ StoredNode(db, u).item.player.skill.tag = "include"
    /\ StoredNode(db, u).item.player.skill.args[1].args[1] # DefaultSkill
    /\ \E v \in uids \ Participants(op[c].game) :
         HasUser(db, v) /\ StoredNode(db, v).item.player = DefaultPlayer

\* the users that the body of connection c has read when the step is the
\* last GET of its finds: those found before, and the one that is read now
ReadNow(c) ==
  LET got == GetNode(db, user_key(Grp, ctx[c].key))
  IN [i \in 1..Len(ctx[c].found) |-> ctx[c].found[i].player]
       \o (IF got = <<>> THEN <<>> ELSE <<got[1].item.player>>)

\* the step is the one in which the body of connection c ends its reads
EndsReads(c) == pc[c] = "get" /\ pc'[c] \in {"exec", "done"}

(***************************************************************************)
(* C15: a create_game whose at_time is earlier than the stored timestamp   *)
(* of a participant does not commit.  No EXEC of a create_game succeeds    *)
(* while a participant's stored timestamp is later than at_time; and the   *)
(* attempt that has read such a participant ends the call where the reads  *)
(* end: nothing is queued or executed, no key of the store changes, and    *)
(* the attempt is not repeated.                                            *)
(***************************************************************************)
C15_NoGameBeforeStoredTime ==
  [][\A c \in Clients :
       op[c].kind = "create_game" =>
         /\ Commits(c) =>
              \A u \in Participants(op[c].game) :
                StoredNode(db, u).item.player.datetime <= op[c].game.datetime
         /\ (EndsReads(c)
               /\ \E i \in 1..Len(ReadNow(c)) : ReadNow(c)[i].datetime > op[c].game.datetime) =>
              /\ pc'[c] = "done"
              /\ res'[c].tag \in {"panic", "err"}
              /\ (GetNode(db, user_key(Grp, ctx[c].key)) # <<>>) => res'[c] = Panic
              /\ pipe'[c] = <<>>
              /\ db' = db
              /\ retries'[c] = retries[c]]_vars

\* a create_game at a time before the stored timestamp of a participant has
\* ended without a result, and the participant is as the later game left it
C15_Witness ==
  \E c \in Clients :
    /\ op[c].kind = "create_game"
    /\ pc[c] = "done"
    /\ res[c] = Panic
    /\ \E u \in Participants(op[c].game) :
         /\ HasUser(db, u)
         /\ StoredNode(db, u).item.player.datetime > op[c].game.datetime
    /\ ~HasGame(db, op[c].game.id)

\* the errors that the body of a transaction returns
BodyErrors == {"UserNameTooShort", "UserAlreadyExists", "MissingEntryError", "NoParentError"}

(***************************************************************************)
(* C16: commit! starts the body again only when EXEC has reported that a   *)
(* watched key changed, and that EXEC has changed nothing.  An error of    *)
(* the body ends the call at once with that error: the step is not an      *)
(* EXEC, nothing of the pipeline is executed, the store is as it was and   *)
(* no retry is counted.  An aborted EXEC never ends the call.              *)
(***************************************************************************)
C16_RetryOnlyOnAbort ==
  [][\A c \in Clients :
       /\ retries'[c] > retries[c] =>
            /\ pc[c] = "exec"
            /\ dirty[c]
            /\ db' = db
            /\ retries'[c] = retries[c] + 1
       /\ (Acts(c) /\ pc'[c] = "done" /\ res'[c].tag = "err") =>
            /\ pc[c] \in {"idle", "cu_scan", "get"} \/ (pc[c] = "exec" /\ dirty[c])
            /\ res'[c].err \in BodyErrors
            /\ pipe'[c] = <<>>
            /\ db' = db
            /\ pc[c] # "exec" => retries'[c] = retries[c]
       /\ (pc[c] = "exec" /\ dirty[c] /\ Acts(c) /\ op'[c] = op[c]) =>
            /\ retries'[c] = retries[c] + 1
            /\ db' = db
            /\ pc'[c] = "done" => res'[c].tag = "err"
       /\ (pc[c] = "exec" /\ ~dirty[c] /\ Acts(c) /\ op'[c] = op[c]) =>
            /\ pc'[c] = "done"
            /\ res'[c] = res[c]
            /\ retries'[c] = retries[c]]_vars

\* a create_user was aborted once and has then ended with the error of its
\* second attempt
C16_Witness ==
  \E c \in Clients :
    /\ op[c].kind = "create_user"
    /\ pc[c] = "done"
    /\ res[c].tag = "err"
    /\ res[c].err = "UserAlreadyExists"
    /\ retries[c] > 0

(***************************************************************************)
(* Reading the games (skill_base.rs: read_games, list_games,               *)
(* get_recent_games)                                                       *)
(***************************************************************************)
MaxListed == 2
MaxListCalls == 2

Digits == <<"0", "1", "2", "3", "4", "5", "6", "7", "8", "9">>

\* the id of the k-th game: a string of a fixed length
GameNo(k) ==
  <<"g", Digits[((k \div 100) % 10) + 1], Digits[((k \div 10) % 10) + 1], Digits[(k % 10) + 1]>>

\* the k-th game: U1 beats U2 in the k-th millisecond
NthGame(k) == Game(GameNo(k), k * TicksPerMs, <<U1>>, <<U2>>)

\* the member x of the sorted set v comes before the member m in the
\* reverse order: a higher score, or the same score and a greater string
Above(v, x, m) ==
  \/ v[x] > v[m]
  \/ v[x] = v[m] /\ x # m /\ LexLE(m, x)

\* ZREVRANK key member: Option<rank>, nil for what is not in the set
zrevrank(d, key, m) ==
  IF key \in DOMAIN d /\ d[key].t = "zset" /\ m \in DOMAIN d[key].v
    THEN <<Cardinality({x \in DOMAIN d[key].v : Above(d[key].v, x, m)})>>
    ELSE <<>>

\* ZREVRANGE key start stop with 0 <= start: the members of the ranks start
\* to stop, both inclusive
zrevrange(d, key, start, stop) ==
  IF key \notin DOMAIN d \/ d[key].t # "zset" THEN <<>>
  ELSE LET v == d[key].v
           rank == [m \in DOMAIN v |-> Cardinality({x \in DOMAIN v : Above(v, x, m)})]
           last == IF stop < Cardinality(DOMAIN v) - 1 THEN stop ELSE Cardinality(DOMAIN v) - 1
       IN [i \in 1..(last - start + 1) |-> CHOOSE m \in DOMAIN v : rank[m] = start + i - 1]

\* the length of a page of list_games less one
PageSpan == 99

\* the last rank that get_recent_games asks for
RecentStop == 100

\* what a call that reads games keeps between its steps
GamesCtx(before_game_rank, game_ids) ==
  [before_game_rank |-> before_game_rank, game_ids |-> game_ids]

\* the arguments of list_games: before_game_id is an Option<GameId>
ListOp(before_game_id) == [kind |-> "list_games", before_game_id |-> before_game_id]

\* the arguments of get_recent_games
RecentOp(user_id) == [kind |-> "get_recent_games", user_id |-> user_id]

\* list_games up to its first command
list_games_call(c, before_game_id) ==
  /\ Take(c)
  /\ op' = [op EXCEPT ![c] = ListOp(before_game_id)]
  /\ SetLocal(c, IF before_game_id # <<>>
                   THEN Local("lg_rank", GamesCtx(0, <<>>), <<>>, NoRes)
                   ELSE Local("lg_range", GamesCtx(0, <<>>), <<>>, NoRes))
  /\ UNCHANGED <<db, watched, dirty, uids>>

\* list_games: the pipeline of WATCH games_key and ZREVRANK games_key
\* before_game_id; nil is no isize
list_games_rank(c) ==
  /\ pc[c] = "lg_rank"
  /\ watched' = [watched EXCEPT ![c] = @ \cup {games_key(Grp)}]
  /\ LET rank == zrevrank(db, games_key(Grp), op[c].before_game_id[1])
     IN SetLocal(c, IF rank = <<>>
                      THEN Local("done", EmptyCtx, <<>>, Err("Redis", <<>>))
                      ELSE Local("lg_range", GamesCtx(rank[1] + 1, <<>>), <<>>, NoRes))
  /\ UNCHANGED <<db, op, dirty, retries, budget, uids>>

\* list_games: ZREVRANGE games_key rank rank+99, the end of the body.  The
\* pipeline of commit! is empty: query_async of an empty pipeline answers
\* without a command to the server, the body is not run again and what the
\* connection watches stays watched.
list_games_range(c) ==
  /\ pc[c] = "lg_range"
  /\ LET r == ctx[c].before_game_rank
     IN SetLocal(c, Local("rg_get",
                          GamesCtx(r, zrevrange(db, games_key(Grp), r, r + PageSpan)),
                          <<>>, NoRes))
  /\ UNCHANGED <<db, op, watched, dirty, retries, budget, uids>>

\* what the GET or MGET of the game keys answers: the server refuses an
\* MGET without a key, and a key that is not there is nil, which is no Game
read_games(d, game_ids) ==
  IF game_ids = <<>> THEN Err("Redis", <<>>)
  ELSE IF \E i \in 1..Len(game_ids) : ~HasGame(d, game_ids[i]) THEN Err("Redis", <<>>)
  ELSE Ok([i \in 1..Len(game_ids) |-> StoredGame(d, game_ids[i])])

\* read_games: the GET of the keys of the game ids
read_games_get(c) ==
  /\ pc[c] = "rg_get"
  /\ SetLocal(c, Local("done", EmptyCtx, <<>>, read_games(db, ctx[c].game_ids)))
  /\ UNCHANGED <<db, op, watched, dirty, retries, budget, uids>>

RECURSIVE GamesStore(_)
\* the store after the games 1 to n of the two users, one after the other
GamesStore(n) ==
  IF n = 0 THEN TwoUsers ELSE create_game_on(GamesStore(n - 1), NthGame(n)).db

InitList ==
  \E listed \in 0..MaxListed : InitWith(GamesStore(listed), AsciiIds, MaxListCalls)

CreateNthGame ==
  \E c \in Clients, k \in 1..(MaxListed + 1) :
    create_game_call(c, GameNo(k), <<U1>>, <<U2>>, k * TicksPerMs)
ListGames ==
  \E c \in Clients :
    \E b \in {<<>>} \cup {<<GameNo(k)>> : k \in 1..(MaxListed + 1)} : list_games_call(c, b)
ListRank == \E c \in Clients : list_games_rank(c)
ListRange == \E c \in Clients : list_games_range(c)
ReadGames == \E c \in Clients : read_games_get(c)

NextList ==
  \/ CreateNthGame
  \/ ListGames
  \/ ListRank
  \/ ListRange
  \/ ReadGames
  \/ Watch
  \/ Get
  \/ ExecCommit
  \/ ExecAbort
  \/ Return

SpecList == InitList /\ [][NextList]_vars

\* the games of the set S of ids, the latest first (their times differ)
NewestFirst(d, S) ==
  [i \in 1..Cardinality(S) |->
     CHOOSE g \in S :
       Cardinality({x \in S : StoredGame(d, x).datetime > StoredGame(d, g).datetime}) = i - 1]

\* the place of g in the sequence s, 0 when it is not there
Pos(s, g) == IF \E i \in 1..Len(s) : s[i] = g THEN CHOOSE i \in 1..Len(s) : s[i] = g ELSE 0

\* the at most PageSpan + 1 elements of s after the place p
PageAfter(s, p) ==
  SubSeq(s, p + 1, IF Len(s) < p + PageSpan + 1 THEN Len(s) ELSE p + PageSpan + 1)

(***************************************************************************)
(* C17: list_games without before_game_id selects the up-to-100 games with *)
(* the highest timestamps, the latest first; with the id of an existing    *)
(* game b, whose rank is still the one that was looked up, it selects the  *)
(* up-to-100 games that follow b in that order, and never b; and the call  *)
(* returns the games of the ids it has selected (the empty list when there *)
(* is none).                                                               *)
(***************************************************************************)
C17_ListGamesPages ==
  [][\A c \in Clients :
       (op[c].kind = "list_games" /\ Acts(c)) =>
         /\ pc[c] = "lg_range" =>
              LET all == NewestFirst(db, Members(db, games_key(Grp)))
                  b == op[c].before_game_id
                  page == ctx'[c].game_ids
              IN /\ pc'[c] = "rg_get"
                 /\ b = <<>> => page = PageAfter(all, 0)
                 /\ (b # <<>> /\ Pos(all, b[1]) = ctx[c].before_game_rank) =>
                      /\ page = PageAfter(all, Pos(all, b[1]))
                      /\ \A i \in 1..Len(page) : page[i] # b[1]
         /\ pc[c] = "rg_get" =>
              /\ pc'[c] = "done"
              /\ res'[c] = Ok([i \in 1..Len(ctx[c].game_ids) |->
                                 StoredGame(db, ctx[c].game_ids[i])])]_vars

(***************************************************************************)
(* C18: list_games with before_game_id reads the rank and the range as one *)
(* transaction on the watched sorted set of the games: when the rank of    *)
(* the game has changed since the lookup, the range read starts the        *)
(* attempt again; so the page never holds the game itself nor a game that  *)
(* ranks above it.                                                         *)
(***************************************************************************)
C18_PageExcludesBefore ==
  [][\A c \in Clients :
       (op[c].kind = "list_games" /\ op[c].before_game_id # <<>>
          /\ pc[c] = "lg_range" /\ Acts(c)) =>
         LET b == op[c].before_game_id[1]
             now == zrevrank(db, games_key(Grp), b)
         IN IF now # <<ctx[c].before_game_rank - 1>>
              THEN pc'[c] = "lg_rank" /\ retries'[c] = retries[c] + 1
              ELSE /\ pc'[c] = "rg_get"
                   /\ \A i \in 1..Len(ctx'[c].game_ids) :
                        /\ ctx'[c].game_ids[i] # b
                        /\ zrevrank(db, games_key(Grp), ctx'[c].game_ids[i])[1] > now[1]]_vars

(***************************************************************************)
(* The recent games of a user                                              *)
(***************************************************************************)
MaxStored == 101
MaxRecentCalls == 1

\* the k-th name of user 1 ("abc...") or of user 2 ("abd..."): names of one
\* length, none of them the beginning of another
NameNo(u, k) ==
  (IF u = U1 THEN NameAbc ELSE NameAbd)
    \o <<Digits[((k \div 100) % 10) + 1], Digits[((k \div 10) % 10) + 1], Digits[(k % 10) + 1]>>

\* a round on the store d: the k-th game of the two users, and then
\* create_user of both ids with a new name, which starts their players anew
Round(d, k) ==
  ApplyAll(ApplyAll(create_game_on(d, NthGame(k)).db, create_user_pipe(U1, NameNo(U1, k))),
           create_user_pipe(U2, NameNo(U2, k)))

\* the next round, played while no connection is in a call and none watches
\* a key: create_game and the two create_user run one after the other
play_round ==
  /\ \A c \in Clients : pc[c] = "idle" /\ watched[c] = {}
  /\ Cardinality(Members(db, games_key(Grp))) < MaxStored
  /\ db' = Round(db, Cardinality(Members(db, games_key(Grp))) + 1)
  /\ UNCHANGED <<pc, op, ctx, pipe, watched, dirty, res, retries, budget, uids>>

\* get_recent_games up to its first command
get_recent_games_call(c, user_id) ==
  /\ Take(c)
  /\ op' = [op EXCEPT ![c] = RecentOp(user_id)]
  /\ SetLocal(c, Local("rc_range", GamesCtx(0, <<>>), <<>>, NoRes))
  /\ UNCHANGED <<db, watched, dirty, uids>>

\* get_recent_games: ZREVRANGE user_games_key 0 100
get_recent_games_range(c) ==
  /\ pc[c] = "rc_range"
  /\ SetLocal(c, Local("rg_get",
                       GamesCtx(0, zrevrange(db, user_games_key(Grp, op[c].user_id),
                                             0, RecentStop)),
                       <<>>, NoRes))
  /\ UNCHANGED <<db, op, watched, dirty, retries, budget, uids>>

InitRecent == InitWith(TwoUsers, AsciiIds, MaxRecentCalls)

PlayRound == play_round
\* the reads of one connection
RecentGames == \E u \in uids : get_recent_games_call("c1", u)
RecentRange == \E c \in Clients : get_recent_games_range(c)

NextRecent ==
  \/ PlayRound
  \/ RecentGames
  \/ RecentRange
  \/ ReadGames
  \/ Return

SpecRecent == InitRecent /\ [][NextRecent]_vars

(***************************************************************************)
(* C19: get_recent_games selects at most 100 games of the user, those with *)
(* the highest timestamps in the sorted set of the user's games, the       *)
(* latest first, and returns the games of the ids it has selected.         *)
(***************************************************************************)
C19_RecentGamesAtMost100 ==
  [][\A c \in Clients :
       (op[c].kind = "get_recent_games" /\ Acts(c)) =>
         /\ pc[c] = "rc_range" =>
              LET all == NewestFirst(db, Members(db, user_games_key(Grp, op[c].user_id)))
              IN /\ Len(ctx'[c].game_ids) <= PageSpan + 1
                 /\ ctx'[c].game_ids = PageAfter(all, 0)
         /\ (pc[c] = "rg_get" /\ ctx[c].game_ids # <<>>) =>
              /\ pc'[c] = "done"
              /\ res'[c] = Ok([i \in 1..Len(ctx[c].game_ids) |->
                                 StoredGame(db, ctx[c].game_ids[i])])]_vars

(***************************************************************************)
(* The leaderboard (skill_base.rs: get_leaderboard, map_score)             *)
(***************************************************************************)
MaxBoardCalls == 2

RECURSIVE Rating(_)
\* The order of mu - 2 sigma on the skills of the model, where a game has
\* one winner and one loser, both of them with the same timestamp: a skill
\* counts the games won less the games lost.  Skills that were computed the
\* same way are the same floats and have the same score.
Rating(m) ==
  CASE m.tag = "include" -> Rating(m.args[1]) + (IF m.args[2].m \div 10 = 0 THEN 1 ELSE -1)
    [] m.tag = "skill_at" -> Rating(m.args[1])
    [] OTHER -> 0

\* map_score: Option<score>, None where skill_at(datetime).unwrap() panics
map_score(user, datetime) ==
  IF skill_at(user.player, datetime) = <<>> THEN <<>>
  ELSE <<Rating(skill_at(user.player, datetime)[1])>>

\* the sequences that hold every element of the set S once
Orders(S) == {s \in [1..Cardinality(S) -> S] : \A i, j \in DOMAIN s : s[i] = s[j] => i = j}

\* sort_unstable_by of the users by the negated score: the orders in which it
\* can leave them, users of equal score in any order
sort_unstable_by(users, datetime) ==
  {[i \in 1..Len(users) |-> users[p[i]]] : p \in
     {q \in Orders(1..Len(users)) :
        \A i \in 1..(Len(users) - 1) :
          map_score(users[q[i]], datetime)[1] >= map_score(users[q[i + 1]], datetime)[1]}}

\* the arguments of get_leaderboard, and the ids that SMEMBERS has answered
BoardOp(datetime, ids) == [kind |-> "get_leaderboard", datetime |-> datetime, ids |-> ids]

\* get_leaderboard up to its first command
get_leaderboard_call(c, datetime) ==
  /\ Take(c)
  /\ op' = [op EXCEPT ![c] = BoardOp(datetime, <<>>)]
  /\ SetLocal(c, Local("lb_members", EmptyCtx, <<>>, NoRes))
  /\ UNCHANGED <<db, watched, dirty, uids>>

\* get_leaderboard: SMEMBERS of the user-id set, in an order that the server
\* chooses, and read_users up to its first command
get_leaderboard_smembers(c) ==
  /\ pc[c] = "lb_members"
  /\ \E ids \in Orders(SMembers(db, user_id_key(Grp))) :
       /\ op' = [op EXCEPT ![c] = BoardOp(op[c].datetime, ids)]
       /\ SetLocal(c, BeginAttempt(BoardOp(op[c].datetime, ids)))
  /\ UNCHANGED <<db, watched, dirty, retries, budget, uids>>

\* get_leaderboard: the sort of the users that read_users has returned
get_leaderboard_sort(c) ==
  /\ pc[c] = "lb_sort"
  /\ IF \E i \in 1..Len(res[c].val) : map_score(res[c].val[i], op[c].datetime) = <<>>
       THEN SetLocal(c, Local("done", EmptyCtx, <<>>, Panic))
       ELSE \E users \in sort_unstable_by(res[c].val, op[c].datetime) :
              SetLocal(c, Local("done", EmptyCtx, <<>>, Ok(users)))
  /\ UNCHANGED <<db, op, watched, dirty, retries, budget, uids>>

InitBoard == InitWith(TwoUsers, AsciiIds, MaxBoardCalls)

CreateBoardGame ==
  \E c \in Clients, t \in Times : create_game_call(c, G1, <<U1>>, <<U2>>, t)
Leaderboard == \E c \in Clients, t \in Times : get_leaderboard_call(c, t)
BoardMembers == \E c \in Clients : get_leaderboard_smembers(c)
BoardSort == \E c \in Clients : get_leaderboard_sort(c)

NextBoard ==
  \/ CreateBoardGame
  \/ Leaderboard
  \/ BoardMembers
  \/ BoardSort
  \/ Watch
  \/ Get
  \/ ExecCommit
  \/ ExecAbort
  \/ Return

SpecBoard == InitBoard /\ [][NextBoard]_vars

\* the ids of a sequence of users
IdsOf(users) == [i \in 1..Len(users) |-> users[i].id]

(***************************************************************************)
(* C20: get_leaderboard returns every user of the user-id set once, in     *)
(* descending order of the score at at_time, and two calls with the same   *)
(* at_time that have read the same users return them in the same order.    *)
(***************************************************************************)
C20_LeaderboardStable ==
  \A c \in Clients :
    (op[c].kind = "get_leaderboard" /\ pc[c] = "done") =>
      /\ res[c].tag = "ok"
      /\ IdsOf(res[c].val) \in Orders(SMembers(db, user_id_key(Grp)))
      /\ \A i \in 1..(Len(res[c].val) - 1) :
           map_score(res[c].val[i], op[c].datetime)[1]
             >= map_score(res[c].val[i + 1], op[c].datetime)[1]
      /\ \A k \in Clients :
           (/\ op[k].kind = "get_leaderboard" /\ pc[k] = "done" /\ res[k].tag = "ok"
            /\ op[k].datetime = op[c].datetime
            /\ {res[k].val[i] : i \in 1..Len(res[k].val)}
                 = {res[c].val[i] : i \in 1..Len(res[c].val)})
             => res[k].val = res[c].val

(***************************************************************************)
(* Two groups on one store                                                 *)
(***************************************************************************)
MaxGroupCalls == 3

\* a group id, and a user id, that hold the separator of the keys
GrpUser1 == Grp \o <<":", "u", "s", "e", "r", ":", "1">>
U1User2 == <<"1", ":", "u", "s", "e", "r", ":", "2">>
GroupIds == {Grp, GrpUser1}
GroupUserIds == {U2, U1User2}

\* the key that the code computes in the group group_id where it computes
\* key in the group Grp: the same suffix behind group_key_prefix(group_id)
in_group(group_id, key) ==
  group_key_prefix(group_id) \o SubSeq(key, Len(group_key_prefix(Grp)) + 1, Len(key))

\* the queued commands of a transaction of the group group_id
group_pipe(group_id, pi) ==
  [i \in 1..Len(pi) |-> [pi[i] EXCEPT !.key = in_group(group_id, @)]]

GroupLocal(group_id, l) == [l EXCEPT !.pipe = group_pipe(group_id, @)]

\* an operation with the group_id it was called with
GroupOp(group_id, kind, user_id, name, ids) ==
  [kind |-> kind, user_id |-> user_id, name |-> name, ids |-> ids, game |-> NoGame,
   group_id |-> group_id]

\* create_user(con, group_id, user_id, name) up to the first WATCH
group_create_user_call(c, group_id, user_id, name) ==
  /\ Take(c)
  /\ op' = [op EXCEPT ![c] = GroupOp(group_id, "create_user", user_id, name, <<>>)]
  /\ IF Len(name) < 3
       THEN SetLocal(c, Local("done", EmptyCtx, <<>>, Err("UserNameTooShort", <<>>)))
       ELSE SetLocal(c, BeginAttempt(GroupOp(group_id, "create_user", user_id, name, <<>>)))
  /\ UNCHANGED <<db, watched, dirty, uids>>

\* read_users(con, group_id, user_ids) up to the first WATCH
group_read_users_call(c, group_id, user_ids) ==
  /\ Take(c)
  /\ op' = [op EXCEPT ![c] = GroupOp(group_id, "read_users", <<>>, <<>>, user_ids)]
  /\ SetLocal(c, BeginAttempt(GroupOp(group_id, "read_users", <<>>, <<>>, user_ids)))
  /\ UNCHANGED <<db, watched, dirty, uids>>

\* create_user: WATCH of the user key of the group
group_create_user_watch(c) ==
  /\ pc[c] = "cu_watch"
  /\ watched' = [watched EXCEPT
                   ![c] = @ \cup {user_key(op[c].group_id, op[c].user_id)}]
  /\ pc' = [pc EXCEPT ![c] = "cu_scan"]
  /\ UNCHANGED <<db, op, ctx, pipe, dirty, res, retries, budget, uids>>

\* create_user: the scan of the name index of the group and the rest of the body
group_create_user_scan(c) ==
  /\ pc[c] = "cu_scan"
  /\ IF zrangebylex(db, user_name_index_key(op[c].group_id),
                    op[c].name \o <<":">>, op[c].name \o <<":", "x7F">>) # {}
       THEN SetLocal(c, Local("done", EmptyCtx, <<>>, Err("UserAlreadyExists", <<>>)))
       ELSE SetLocal(c, Local("exec", EmptyCtx,
                              group_pipe(op[c].group_id,
                                         create_user_pipe(op[c].user_id, op[c].name)),
                              Ok(<<User(op[c].user_id, op[c].name, DefaultPlayer)>>)))
  /\ UNCHANGED <<db, op, watched, dirty, retries, budget, uids>>

\* UserStoreCtx::get_node on a cache miss: WATCH of the user key of the group
group_get_node_watch(c) ==
  /\ pc[c] = "watch"
  /\ watched' = [watched EXCEPT
                   ![c] = @ \cup {user_key(op[c].group_id, ctx[c].key)}]
  /\ pc' = [pc EXCEPT ![c] = "get"]
  /\ UNCHANGED <<db, op, ctx, pipe, dirty, res, retries, budget, uids>>

\* the GET of get_node for the key x.key of the group, read from the store d
group_get_node_fetch(o, d, x) ==
  LET got == GetNode(d, user_key(o.group_id, x.key))
  IN IF got = <<>>
       THEN Local("done", EmptyCtx, <<>>,
                  IF x.node = <<>>
                    THEN Err("MissingEntryError", <<x.target>>)
                    ELSE Err("NoParentError", <<x.index>>))
       ELSE LET cache == Put(x.cache, x.key, got[1])
                w == IF x.node = <<>>
                       THEN Find_walk(cache, x.key, got[1])
                       ELSE Find_walk(cache, x.index, x.node[1])
            IN GroupLocal(o.group_id, AfterWalk(o, w, x.found, x.todo, x.target))

\* UserStoreCtx::get_node on a cache miss: GET of the user key of the group,
\* and the body up to its next suspension point
group_get_node_get(c) ==
  /\ pc[c] = "get"
  /\ SetLocal(c, group_get_node_fetch(op[c], db, ctx[c]))
  /\ UNCHANGED <<db, op, watched, dirty, retries, budget, uids>>

InitGroups == InitWith(EmptyMap, GroupUserIds, MaxGroupCalls)

GroupCreateUser ==
  \E c \in Clients, g \in GroupIds, u \in uids : group_create_user_call(c, g, u, NameAbc)
GroupReadUsers ==
  \E c \in Clients, g \in GroupIds, u \in uids : group_read_users_call(c, g, <<u>>)
GroupCuWatch == \E c \in Clients : group_create_user_watch(c)
GroupCuScan == \E c \in Clients : group_create_user_scan(c)
GroupWatch == \E c \in Clients : group_get_node_watch(c)
GroupGet == \E c \in Clients : group_get_node_get(c)

NextGroups ==
  \/ GroupCreateUser
  \/ GroupReadUsers
  \/ GroupCuWatch
  \/ GroupCuScan
  \/ GroupWatch
  \/ GroupGet
  \/ ExecCommit
  \/ ExecAbort
  \/ Return
  \/ Abandon

SpecGroups == InitGroups /\ [][NextGroups]_vars

\* the keys of the persisted state of one group
KeysOf(group_id) ==
  {user_id_key(group_id), user_name_index_key(group_id), games_key(group_id)}
    \cup {user_key(group_id, u) : u \in GroupUserIds}
    \cup {user_games_key(group_id, u) : u \in GroupUserIds}
    \cup {game_key(group_id, g) : g \in GameIds}

(***************************************************************************)
(* C21: transactions on different groups never conflict: a commit in group *)
(* A modifies no key of another group B, none that a transaction of B      *)
(* WATCHes, and it does not make the EXEC of a transaction of B abort.     *)
(***************************************************************************)
C21_GroupsDisjoint ==
  [][\A c \in Clients :
       Commits(c) =>
         /\ \A g \in GroupIds \ {op[c].group_id} :
              Touched(db, pipe[c]) \cap KeysOf(g) = {}
         /\ \A k \in Clients \ {c} :
              (op[k] # NoOp /\ op[k].group_id # op[c].group_id) =>
                /\ Touched(db, pipe[c]) \cap watched[k] = {}
                /\ dirty'[k] = dirty[k]]_vars

(***************************************************************************)
(* The union-find forest on a store in memory (merge.rs, mod tests)        *)
(***************************************************************************)
MaxKeys == 6
MaxRuns == 3
MaxMergeKeys == 4

\* the indices below n hold a node; n itself is an index that holds none
Indices(n) == 0..(n - 1)

\* MemoryStore of n elements built with Mergeable::new(parent, item): the
\* node i names as its parent itself (a root), a node before it, or the
\* index n, which holds no node
MemoryStore(n, parents) ==
  [i \in Indices(n) |-> Mergeable_new(parents[i], <<i>>)]

Forests(n) ==
  {MemoryStore(n, p) : p \in {q \in [Indices(n) -> 0..n] : \A i \in Indices(n) : q[i] <= i \/ q[i] = n}}

\* the stores of simple_store and test_path_halving: every node is a root or
\* names the node before it as its parent
Chains(n) ==
  {MemoryStore(n, p) :
     p \in {q \in [Indices(n) -> 0..n] : \A i \in Indices(n) : q[i] = i \/ q[i] + 1 = i}}

\* Find::run that returns the node it was asked for, not the root
Find_run_asked(elements, index) ==
  IF index \notin DOMAIN elements
    THEN [ok |-> FALSE, err |-> "MissingEntryError", key |-> index, elements |-> elements]
  ELSE LET w == Find_walk(elements, index, elements[index])
       IN IF w.k = "root"
            THEN [ok |-> TRUE, node |-> w.cache[index], elements |-> w.cache]
            ELSE [ok |-> FALSE, err |-> "NoParentError", key |-> w.index,
                  elements |-> w.cache]

\* Find::run that reports the key of the parent that holds no node
Find_run_parent_key(elements, index) ==
  IF index \notin DOMAIN elements
    THEN [ok |-> FALSE, err |-> "MissingEntryError", key |-> index, elements |-> elements]
  ELSE LET w == Find_walk(elements, index, elements[index])
       IN IF w.k = "root"
            THEN [ok |-> TRUE, node |-> w.node, elements |-> w.cache]
            ELSE [ok |-> FALSE, err |-> "NoParentError", key |-> w.node.parent_index,
                  elements |-> w.cache]

\* Find::run on the elements of a MemoryStoreCtx
Find_run(elements, index) ==
  IF index \notin DOMAIN elements
    THEN [ok |-> FALSE, err |-> "MissingEntryError", key |-> index, elements |-> elements]
  ELSE LET w == Find_walk(elements, index, elements[index])
       IN IF w.k = "root"
            THEN [ok |-> TRUE, node |-> w.node, elements |-> w.cache]
            ELSE [ok |-> FALSE, err |-> "NoParentError", key |-> w.index,
                  elements |-> w.cache]

\* the merge_op of test_merge: the left item in front of the right one
merge_op(left, right) == left \o right

\* Merge::run that stores the merged root and leaves the other root a root
Merge_run_unlinked(elements, left_index_, right_index_) ==
  LET l == Find_run(elements, left_index_)
  IN IF ~l.ok THEN l
     ELSE LET r == Find_run(l.elements, right_index_)
          IN IF ~r.ok THEN r
             ELSE LET left == l.node
                      left_index == left.parent_index
                      right == r.node
                      right_index == right.parent_index
                  IN IF left_index = right_index
                       THEN [ok |-> TRUE, node |-> left, elements |-> r.elements]
                     ELSE IF left.rank < right.rank
                       THEN LET merged == [right EXCEPT !.item = merge_op(left.item, @)]
                            IN [ok |-> TRUE, node |-> merged,
                                elements |-> set_node(r.elements, right_index, merged)]
                     ELSE LET merged == [left EXCEPT
                                           !.item = merge_op(right.item, @),
                                           !.rank = IF left.rank = right.rank
                                                      THEN @ + 1 ELSE @]
                          IN [ok |-> TRUE, node |-> merged,
                              elements |-> set_node(r.elements, left_index, merged)]

\* Merge::run that raises the rank of the left root whenever it survives
Merge_run_rank_always(elements, left_index_, right_index_) ==
  LET l == Find_run(elements, left_index_)
  IN IF ~l.ok THEN l
     ELSE LET r == Find_run(l.elements, right_index_)
          IN IF ~r.ok THEN r
             ELSE LET left == l.node
                      left_index == left.parent_index
                      right == r.node
                      right_index == right.parent_index
                  IN IF left_index = right_index
                       THEN [ok |-> TRUE, node |-> left, elements |-> r.elements]
                     ELSE IF left.rank < right.rank
                       THEN LET merged == [right EXCEPT !.item = merge_op(left.item, @)]
                            IN [ok |-> TRUE, node |-> merged,
                                elements |->
                                  set_node(set_node(r.elements, right_index, merged),
                                           left_index,
                                           [left EXCEPT !.parent_index = right_index])]
                     ELSE LET merged == [left EXCEPT
                                           !.item = merge_op(right.item, @),
                                           !.rank = @ + 1]
                          IN [ok |-> TRUE, node |-> merged,
                              elements |->
                                set_node(set_node(r.elements, left_index, merged),
                                         right_index,
                                         [right EXCEPT !.parent_index = left_index])]

\* Merge::run that never raises a rank
Merge_run_rank_never(elements, left_index_, right_index_) ==
  LET l == Find_run(elements, left_index_)
  IN IF ~l.ok THEN l
     ELSE LET r == Find_run(l.elements, right_index_)
          IN IF ~r.ok THEN r
             ELSE LET left == l.node
                      left_index == left.parent_index
                      right == r.node
                      right_index == right.parent_index
                  IN IF left_index = right_index
                       THEN [ok |-> TRUE, node |-> left, elements |-> r.elements]
                     ELSE IF left.rank < right.rank
                       THEN LET merged == [right EXCEPT !.item = merge_op(left.item, @)]
                            IN [ok |-> TRUE, node |-> merged,
                                elements |->
                                  set_node(set_node(r.elements, right_index, merged),
                                           left_index,
                                           [left EXCEPT !.parent_index = right_index])]
                     ELSE LET merged == [left EXCEPT !.item = merge_op(right.item, @)]
                          IN [ok |-> TRUE, node |-> merged,
                              elements |->
                                set_node(set_node(r.elements, left_index, merged),
                                         right_index,
                                         [right EXCEPT !.parent_index = left_index])]

\* Merge::run on the elements of a MemoryStoreCtx
Merge_run(elements, left_index_, right_index_) ==
  LET l == Find_run(elements, left_index_)
  IN IF ~l.ok THEN l
     ELSE LET r == Find_run(l.elements, right_index_)
          IN IF ~r.ok THEN r
             ELSE LET left == l.node
                      left_index == left.parent_index
                      right == r.node
                      right_index == right.parent_index
                  IN IF left_index = right_index
                       THEN [ok |-> TRUE, node |-> left, elements |-> r.elements]
                     ELSE IF left.rank < right.rank
                       THEN LET merged == [right EXCEPT !.item = merge_op(left.item, @)]
                            IN [ok |-> TRUE, node |-> merged,
                                elements |->
                                  set_node(set_node(r.elements, right_index, merged),
                                           left_index,
                                           [left EXCEPT !.parent_index = right_index])]
                     ELSE LET merged == [left EXCEPT
                                           !.item = merge_op(right.item, @),
                                           !.rank = IF left.rank = right.rank
                                                      THEN @ + 1 ELSE @]
                          IN [ok |-> TRUE, node |-> merged,
                              elements |->
                                set_node(set_node(r.elements, left_index, merged),
                                         right_index,
                                         [right EXCEPT !.parent_index = left_index])]

\* find(index) and merge(left_index, right_index, merge_op): the item of the node
Item(r) == IF r.ok THEN Ok(<<r.node.item>>) ELSE Err(r.err, <<r.key>>)

\* the transaction a test runs, and for a find how many times in a row the
\* test has run it
FindOp(index, runs) == [kind |-> "find", index |-> index, runs |-> runs]
MergeOp(left_index, right_index, runs) ==
  [kind |-> "merge", left_index |-> left_index, right_index |-> right_index,
   runs |-> runs]

Again(o) == IF o.kind = "find" /\ op["c1"].kind = "find" /\ op["c1"].index = o.index
              THEN [o EXCEPT !.runs = op["c1"].runs + 1]
              ELSE o

\* MemoryStore::run: the transaction runs on a copy of the elements, which
\* replaces them when it returns Ok
MemoryStore_run(o, r) ==
  /\ Again(o).runs <= MaxRuns
  /\ db' = IF r.ok THEN r.elements ELSE db
  /\ op' = [op EXCEPT !["c1"] = Again(o)]
  /\ res' = [res EXCEPT !["c1"] = Item(r)]
  /\ UNCHANGED <<pc, ctx, pipe, watched, dirty, retries, budget, uids>>

\* store.run(&find(index))
run_find(index) == MemoryStore_run(FindOp(index, 1), Find_run(db, index))

\* store.run(&merge(left_index, right_index, merge_op))
run_merge(left_index, right_index) ==
  MemoryStore_run(MergeOp(left_index, right_index, 1),
                  Merge_run(db, left_index, right_index))

InitFind == \E elements \in Forests(MaxKeys) : InitWith(elements, {}, 0)

RunFind == \E index \in 0..MaxKeys : run_find(index)

NextFindRuns == RunFind

SpecFind == InitFind /\ [][NextFindRuns]_vars

InitMerge == \E elements \in Chains(MaxMergeKeys) : InitWith(elements, {}, 0)

RunFindMerged == \E index \in 0..MaxMergeKeys : run_find(index)

RunMerge == \E left_index, right_index \in 0..MaxMergeKeys : run_merge(left_index, right_index)

NextMerge ==
  \/ RunFindMerged
  \/ RunMerge

SpecMerge == InitMerge /\ [][NextMerge]_vars

RECURSIVE Path(_, _)
\* the indices from index to the end of its stored path: its root, or the
\* last node, whose parent holds no node
Path(elements, index) ==
  IF is_root(elements[index], index) \/ elements[index].parent_index \notin DOMAIN elements
    THEN <<index>>
    ELSE <<index>> \o Path(elements, elements[index].parent_index)

Last(s) == s[Len(s)]

\* the path of index ends in a root
Rooted(elements, index) ==
  /\ index \in DOMAIN elements
  /\ is_root(elements[Last(Path(elements, index))], Last(Path(elements, index)))

\* the number of parent links between index and its root
Links(elements, index) == Len(Path(elements, index)) - 1

\* the step runs find(index) on the store, for the first time or again
Finds(index) ==
  /\ op'["c1"].kind = "find"
  /\ op'["c1"].index = index
  /\ op' # op

(***************************************************************************)
(* C22: find is idempotent in its result: when find(k) has returned a      *)
(* value and is run again with no other transaction in between, it returns *)
(* the same value, the item of k's root, whatever parent pointers the      *)
(* first run has rewritten.                                                *)
(***************************************************************************)
C22_FindIdempotent ==
  [][\A k \in Indices(MaxKeys) :
       (Finds(k) /\ Rooted(db, k)) =>
         /\ res'["c1"] = Ok(<<db[Last(Path(db, k))].item>>)
         /\ (op["c1"].kind = "find" /\ op["c1"].index = k) => res'["c1"] = res["c1"]]_vars

\* find(k) has run twice in a row on a node that was three links or more
\* from its root, and the first run has rewritten its parent
C22_Witness ==
  \E k \in Indices(MaxKeys) :
    /\ op["c1"] = FindOp(k, 2)
    /\ res["c1"].tag = "ok"
    /\ res["c1"].val # <<<<k>>>>
    /\ Links(db, k) >= 2

(***************************************************************************)
(* C23 (as stated): after find(k) on an acyclic forest, at most 2 parent   *)
(* links lie on the stored path from k to its root, whatever the depth of  *)
(* k was before the call.                                                  *)
(***************************************************************************)
C23_PathAtMostTwo ==
  [][\A k \in Indices(MaxKeys) :
       (Finds(k) /\ Rooted(db, k)) => Links(db', k) <= 2]_vars

(***************************************************************************)
(* C23 (amended): find(k) halves the stored path of k: a node that was d   *)
(* links from its root is (d + 1) \div 2 links from it after the call, the *)
(* root is the same, and this is at most 2 only for d <= 4.                *)
(***************************************************************************)
C23_PathHalved ==
  [][\A k \in Indices(MaxKeys) :
       (Finds(k) /\ Rooted(db, k)) =>
         /\ Rooted(db', k)
         /\ Last(Path(db', k)) = Last(Path(db, k))
         /\ Links(db', k) = (Links(db, k) + 1) \div 2]_vars

\* find(k) has run once and k is still 3 links from its root: it was 5 or
\* more links from it before
C23_Witness ==
  \E k \in Indices(MaxKeys) :
    /\ op["c1"] = FindOp(k, 1)
    /\ res["c1"].tag = "ok"
    /\ Links(db, k) = 3

(***************************************************************************)
(* C24: find(k) fails with MissingEntryError(k) when k holds no node, and  *)
(* with NoParentError(c) when a node c reached during the walk names a     *)
(* parent that holds no node: the error carries the key of c, not the key  *)
(* of the missing parent. In both cases no value is returned (and the      *)
(* store in memory keeps its elements).                                    *)
(***************************************************************************)
C24_FindErrors ==
  [][\A k \in 0..MaxKeys :
       Finds(k) =>
         /\ k \notin DOMAIN db =>
              /\ res'["c1"] = Err("MissingEntryError", <<k>>)
              /\ db' = db
         /\ (k \in DOMAIN db /\ ~Rooted(db, k)) =>
              /\ res'["c1"] = Err("NoParentError", <<Last(Path(db, k))>>)
              /\ db[Last(Path(db, k))].parent_index \notin DOMAIN db
              /\ db' = db]_vars

\* find(k) has failed at a node c behind k whose parent holds no node
C24_Witness ==
  \E k \in Indices(MaxKeys) :
    /\ op["c1"] = FindOp(k, 1)
    /\ res["c1"].tag = "err"
    /\ res["c1"].err = "NoParentError"
    /\ res["c1"].val # <<k>>
    /\ res["c1"].val = <<Last(Path(db, k))>>
    /\ Links(db, k) >= 2

\* the step runs merge(left_index, right_index, merge_op) on the store
Merges(left_index, right_index) ==
  /\ op'["c1"].kind = "merge"
  /\ op'["c1"].left_index = left_index
  /\ op'["c1"].right_index = right_index
  /\ op' # op

\* the index of the root of index
RootOf(elements, index) == Last(Path(elements, index))

(***************************************************************************)
(* C25: after merge(a, b, merge_op) has succeeded, find(a) and find(b)     *)
(* return the same value, the value merge returned, which is the fusion by *)
(* merge_op of the items of the two former roots (the item of the one root *)
(* when a and b were in one tree already); find(c) for every key c of any  *)
(* other tree returns what it returned before the merge.                   *)
(***************************************************************************)
C25_MergeJoins ==
  [][\A a \in Indices(MaxMergeKeys), b \in Indices(MaxMergeKeys) :
       (Merges(a, b) /\ res'["c1"].tag = "ok") =>
         LET ra == RootOf(db, a)
             rb == RootOf(db, b)
         IN /\ Item(Find_run(db', a)) = res'["c1"]
            /\ Item(Find_run(db', b)) = res'["c1"]
            /\ res'["c1"].val \in
                 (IF ra = rb THEN {<<db[ra].item>>}
                  ELSE {<<merge_op(db[ra].item, db[rb].item)>>,
                        <<merge_op(db[rb].item, db[ra].item)>>})
            /\ \A c \in Indices(MaxMergeKeys) :
                 RootOf(db, c) \notin {ra, rb} =>
                   Item(Find_run(db', c)) = Item(Find_run(db, c))]_vars

\* merge(a, b) has joined two trees, a third tree exists, and a and b are
\* not the roots the merge has written
C25_Witness ==
  \E a \in Indices(MaxMergeKeys), b \in Indices(MaxMergeKeys) :
    /\ op["c1"] = MergeOp(a, b, 1)
    /\ res["c1"].tag = "ok"
    /\ Len(res["c1"].val[1]) >= 2
    /\ RootOf(db, a) = RootOf(db, b)
    /\ RootOf(db, a) \notin {a, b}
    /\ \E c \in Indices(MaxMergeKeys) : RootOf(db, c) # RootOf(db, a)

(***************************************************************************)
(* The driver commit! with commands that fail on the connection            *)
(***************************************************************************)
MaxDriverCalls == 3

\* a command of the body fails on the connection: get_node turns the error
\* of its WATCH or GET into None (.ok()?), which ends the find; create_user
\* returns the error of its WATCH or of its scan
query_error(c) ==
  /\ pc[c] \in {"cu_watch", "cu_scan", "watch", "get"}
  /\ SetLocal(c, Local("done", EmptyCtx, <<>>,
                       IF pc[c] \in {"cu_watch", "cu_scan"} THEN Err("Redis", <<>>)
                       ELSE IF ctx[c].node = <<>>
                         THEN Err("MissingEntryError", <<ctx[c].target>>)
                         ELSE Err("NoParentError", <<ctx[c].index>>)))
  /\ watched' = [watched EXCEPT ![c] = {}]
  /\ dirty' = [dirty EXCEPT ![c] = FALSE]
  /\ UNCHANGED <<db, op, retries, budget, uids>>

\* query_async of the pipeline fails on the connection, and `?` ends the
\* call: the request was lost, or the reply was lost after the server has
\* run MULTI, the commands and EXEC
exec_error(c) ==
  /\ pc[c] = "exec"
  /\ pipe[c] # <<>>
  /\ \E sent \in BOOLEAN :
       LET r == query_async(db, pipe[c], dirty[c])
       IN /\ db' = IF sent THEN r.db ELSE db
          /\ dirty' = [k \in Clients |->
                         IF k = c THEN FALSE
                         ELSE dirty[k] \/ (/\ sent
                                           /\ r.reply # <<>>
                                           /\ watched[k] \cap Touched(db, pipe[c]) # {})]
  /\ watched' = [watched EXCEPT ![c] = {}]
  /\ SetLocal(c, Local("done", EmptyCtx, <<>>, Err("Redis", <<>>)))
  /\ UNCHANGED <<op, retries, budget, uids>>

InitDriver == InitWith(EmptyMap, AsciiIds, MaxDriverCalls)

QueryError == \E c \in Clients : query_error(c)
ExecError == \E c \in Clients : exec_error(c)

NextDriver ==
  \/ CreateUser
  \/ ReadUsers
  \/ CuWatch
  \/ CuScan
  \/ Watch
  \/ Get
  \/ QueryError
  \/ ExecCommit
  \/ ExecAbort
  \/ ExecError
  \/ Return

SpecDriver == InitDriver /\ [][NextDriver]_vars

\* the states of the driver on connection c
Building(c) == pc[c] \in {"cu_watch", "cu_scan", "watch", "get"}
Executing(c) == pc[c] = "exec"
Committed(c) == pc[c] = "done" /\ res[c].tag = "ok"
Failed(c) == pc[c] = "done" /\ res[c].tag = "err"

(***************************************************************************)
(* C26: every execution of commit! follows the state machine of the        *)
(* driver.  Building goes on building, or becomes Executing when the body  *)
(* has returned Ok and the pipeline is sent, or Failed with the error of   *)
(* the body.  Executing becomes Committed when EXEC succeeds, and the call *)
(* returns the body's result of that same attempt (for read_users, what    *)
(* the body returns on the store the EXEC was run on); on an aborted EXEC  *)
(* it goes through Retrying back to Building with a new pipeline and a new *)
(* cache; on a connection error it becomes Failed.  Committed and Failed   *)
(* are terminal: the result stays until the caller takes it.  No other     *)
(* transition occurs.                                                      *)
(***************************************************************************)
C26_DriverStateMachine ==
  [][\A c \in Clients :
       /\ (Building(c) /\ Acts(c)) =>
            \/ Building(c)' /\ res'[c] = NoRes /\ retries'[c] = retries[c]
            \/ /\ Executing(c)'
               /\ res'[c].tag = "ok"
               /\ retries'[c] = retries[c]
               /\ db' = db
            \/ /\ Failed(c)'
               /\ res'[c].err \in BodyErrors \cup {"Redis"}
               /\ db' = db
       /\ (Executing(c) /\ (Acts(c) \/ retries'[c] # retries[c])) =>
            \/ /\ Committed(c)'
               /\ ~dirty[c]
               /\ res'[c] = res[c]
               /\ op[c].kind = "read_users" => res'[c] = read_users_on(db, op[c].ids)
               /\ db' = ApplyAll(db, pipe[c])
            \/ /\ dirty[c]
               /\ Building(c)'
               /\ retries'[c] = retries[c] + 1
               /\ db' = db
               /\ <<ctx'[c], pipe'[c], res'[c]>> = <<BeginAttempt(op[c]).ctx, <<>>, NoRes>>
            \/ /\ Failed(c)'
               /\ res'[c] = Err("Redis", <<>>)
       /\ pc[c] = "done" =>
            \/ pc'[c] = "done" /\ res'[c] = res[c] /\ op'[c] = op[c]
            \/ pc'[c] = "idle"
       /\ (pc[c] = "idle" /\ Acts(c)) =>
            \/ Building(c)' /\ retries'[c] = 0
            \/ Failed(c)' /\ res'[c].err = "UserNameTooShort"]_vars

\* a read_users was aborted, has run its body again on the changed store and
\* has committed, and returns the user as the second attempt has read it
C26_Witness ==
  \E c \in Clients :
    /\ op[c].kind = "read_users"
    /\ Committed(c)
    /\ retries[c] > 0
    /\ \E i \in 1..Len(res[c].val) : res[c].val[i].name = NameAbd

\* the number of commands cmd on key that the pipeline pi holds
Queued(pi, cmd, key) ==
  Cardinality({i \in 1..Len(pi) : pi[i].cmd = cmd /\ pi[i].key = key})

\* how many times the game names the user u
Named(game, u) ==
  Cardinality({i \in 1..Len(game.winner_ids \o game.loser_ids) :
                 (game.winner_ids \o game.loser_ids)[i] = u})

(***************************************************************************)
(* C27: every attempt starts with an empty pipeline and an empty cache of  *)
(* the store context: after an aborted EXEC nothing that the aborted       *)
(* attempt has queued or cached is left.  So the EXEC that commits a       *)
(* create_game, after any number of retries, executes exactly the pipeline *)
(* that one run of the body queues on the store as it is at that EXEC: one *)
(* SET per participant (for a participant the game names once: one skill   *)
(* update on the Player the store held), one SET of the game record, one   *)
(* ZADD on the index of the group's games and, for each time the game      *)
(* names a participant, one ZADD on the index of that participant's games. *)
(***************************************************************************)
C27_FreshAttempts ==
  [][\A c \in Clients :
       /\ retries'[c] > retries[c] =>
            /\ pipe'[c] = <<>>
            /\ ctx'[c].cache = EmptyMap
            /\ ctx'[c].found = <<>>
            /\ pc'[c] = "watch"
       /\ (op[c].kind = "create_game" /\ Commits(c)) =>
            LET game == op[c].game
                once == RunBody(op[c], db, BeginAttempt(op[c]))
            IN /\ once.pc = "exec"
               /\ pipe[c] = once.pipe
               /\ db' = ApplyAll(db, once.pipe)
               /\ Len(pipe[c]) = Cardinality(Participants(game)) + 2
                                   + Len(game.winner_ids) + Len(game.loser_ids)
               /\ Queued(pipe[c], "SET", game_key(Grp, game.id)) = 1
               /\ Queued(pipe[c], "ZADD", games_key(Grp)) = 1
               /\ \A u \in Participants(game) :
                    /\ Queued(pipe[c], "SET", user_key(Grp, u)) = 1
                    /\ Queued(pipe[c], "ZADD", user_games_key(Grp, u)) = Named(game, u)
                    /\ Named(game, u) = 1 =>
                         \E upd \in UpdatesOf(db, game, u) :
                           StoredNode(db', u).item.player
                             = set_skill(StoredNode(db, u).item.player,
                                         Stored(include(
                                           skill_at(StoredNode(db, u).item.player,
                                                    game.datetime)[1], upd)),
                                         game.datetime)]_vars

\* a create_game of two users was aborted, has started again and committed
C27_Witness ==
  \E c \in Clients :
    /\ op[c].kind = "create_game"
    /\ pc[c] = "done"
    /\ res[c].tag = "ok"
    /\ retries[c] > 0
    /\ Cardinality(Participants(op[c].game)) = 2
    /\ GameWritten(db, op[c].game)

\* what the store holds under key: Option<value>
Held(d, key) == IF key \in DOMAIN d THEN <<d[key]>> ELSE <<>>

(***************************************************************************)
(* C28: within one attempt the store context issues a WATCH on a user key  *)
(* before the GET of that key: the key of a GET, and the key of every node *)
(* in the cache, is WATCHed on the connection.  A commit of another        *)
(* connection that changes what such a key holds marks the attempt, the    *)
(* mark stays while the body runs, and the EXEC of a marked attempt aborts *)
(* and writes nothing.                                                     *)
(***************************************************************************)
C28_WatchBeforeGet ==
  [][\A c \in Clients :
       /\ (pc[c] = "get" /\ Acts(c)) => user_key(Grp, ctx[c].key) \in watched[c]
       /\ pc'[c] \in {"watch", "get"} =>
            \A u \in DOMAIN ctx'[c].cache : user_key(Grp, u) \in watched'[c]
       /\ \A k \in Clients \ {c} :
            (Commits(k) /\ pc[c] \in {"watch", "get", "exec"}) =>
              \A u \in uids :
                (/\ u \in DOMAIN ctx[c].cache \/ user_key(Grp, u) \in watched[c]
                 /\ Held(db', user_key(Grp, u)) # Held(db, user_key(Grp, u)))
                  => dirty'[c]
       /\ (dirty[c] /\ pc[c] \in {"watch", "get"} /\ pc'[c] \in {"watch", "get", "exec"})
            => dirty'[c]
       /\ (dirty[c] /\ pc[c] = "exec" /\ Acts(c)) =>
            /\ ~Commits(c)
            /\ db' = db]_vars

\* the EXEC of an attempt is about to abort: a game has committed a new
\* Player for a user after the attempt has read that user
C28_Witness ==
  \E c \in Clients, k \in Clients, u \in uids :
    /\ pc[c] = "exec"
    /\ dirty[c]
    /\ user_key(Grp, u) \in watched[c]
    /\ op[k].kind = "create_game"
    /\ pc[k] = "done"
    /\ res[k].tag = "ok"
    /\ u \in Participants(op[k].game)
    /\ \E i \in 1..Len(pipe[c]) :
         /\ pipe[c][i].key = user_key(Grp, u)
         /\ pipe[c][i].arg # StoredNode(db, u)

RECURSIVE Seen(_, _, _)
\* the store as an attempt sees it: for the ids in ks the nodes that its
\* store context holds, for every other key what the store d holds
Seen(d, cache, ks) ==
  IF ks = <<>> THEN d
  ELSE Seen(Put(d, user_key(Grp, Head(ks)),
                [t |-> "string", v |-> to_json(cache[Head(ks)])]),
            cache, Tail(ks))

(***************************************************************************)
(* C29: within one attempt the store context gives a stable view.  The     *)
(* store is never read for an id that the cache holds; a node in the cache *)
(* stays there with its item while the body reads other ids, whatever      *)
(* other clients commit in the meantime; and when the body ends, what it   *)
(* queues and returns is what it queues and returns on a store that holds, *)
(* for every id read before, the node as it was first read, and not what   *)
(* was committed to that id since.                                         *)
(***************************************************************************)
C29_StableView ==
  [][\A c \in Clients :
       /\ pc'[c] \in {"watch", "get"} => ctx'[c].key \notin DOMAIN ctx'[c].cache
       /\ (pc[c] \in {"watch", "get"} /\ pc'[c] \in {"watch", "get"}) =>
            \A u \in DOMAIN ctx[c].cache :
              /\ u \in DOMAIN ctx'[c].cache
              /\ ctx'[c].cache[u].item = ctx[c].cache[u].item
       /\ (pc[c] = "get" /\ pc'[c] \in {"exec", "done"}) =>
            LET view == Seen(db, ctx[c].cache, SetToSeq(DOMAIN ctx[c].cache))
                l == RunBody(op[c], view, BeginAttempt(op[c]))
            IN /\ pipe'[c] = l.pipe
               /\ res'[c] = l.res]_vars

\* a read_users of two users is about to send its pipeline: it returns the
\* first user as it has read it, and the second as a game has committed it
\* after the first was read
C29_Witness ==
  \E c \in Clients, u \in uids, v \in uids :
    /\ op[c].kind = "read_users"
    /\ pc[c] = "exec"
    /\ dirty[c]
    /\ Len(res[c].val) = 2
    /\ res[c].val[1].id = u
    /\ res[c].val[1] # StoredNode(db, u).item
    /\ res[c].val[1].player = DefaultPlayer
    /\ res[c].val[2].id = v
    /\ res[c].val[2] = StoredNode(db, v).item
    /\ res[c].val[2].player # DefaultPlayer

\* the pipeline pi holds a SET of the user key of u with a node that is not
\* the one the store d holds
StaleCopy(d, pi, u) ==
  \E i \in 1..Len(pi) :
    /\ pi[i].cmd = "SET"
    /\ pi[i].key = user_key(Grp, u)
    /\ HasUser(d, u)
    /\ pi[i].arg # d[user_key(Grp, u)].v

(***************************************************************************)
(* C30: read_users writes back every node it has read, modified or not,    *)
(* and never reverts a committed update.  Its pipeline holds one SET for   *)
(* each id it has read; when a game has committed a new skill for a user   *)
(* after the attempt has read that user, so that the pipeline holds a      *)
(* stale copy, the attempt is marked, its EXEC aborts without a write and  *)
(* read_users starts again; the EXEC that succeeds changes no user's item  *)
(* (id, name, Player) and adds no key; no other step of read_users changes *)
(* the store.                                                              *)
(***************************************************************************)
C30_ReadUsersWritesBack ==
  [][\A c \in Clients :
       op[c].kind = "read_users" =>
         /\ pc[c] = "exec" =>
              /\ \A i \in 1..Len(op[c].ids) :
                   Queued(pipe[c], "SET", user_key(Grp, op[c].ids[i])) = 1
              /\ Len(pipe[c]) = Len(op[c].ids)
              /\ \A u \in uids : StaleCopy(db, pipe[c], u) => dirty[c]
         /\ (pc[c] = "exec" /\ dirty[c] /\ Acts(c) /\ pc'[c] # "idle") =>
              /\ db' = db
              /\ retries'[c] = retries[c] + 1
              /\ pc'[c] = "watch"
              /\ pipe'[c] = <<>>
         /\ Commits(c) =>
              /\ ~dirty[c]
              /\ DOMAIN db' = DOMAIN db
              /\ \A u \in uids :
                   HasUser(db, u) => StoredNode(db', u).item = StoredNode(db, u).item
         /\ (Acts(c) /\ ~Commits(c)) => db' = db]_vars

\* a read_users whose EXEC was aborted by a game has run again, has
\* committed and returns the user with the skill that the game has stored,
\* which the store still holds
C30_Witness ==
  \E c \in Clients, k \in Clients, u \in uids :
    /\ op[c].kind = "read_users"
    /\ pc[c] = "done"
    /\ res[c].tag = "ok"
    /\ retries[c] > 0
    /\ op[k].kind = "create_game"
    /\ pc[k] = "done"
    /\ res[k].tag = "ok"
    /\ u \in Participants(op[k].game)
    /\ \E i \in 1..Len(res[c].val) :
         /\ res[c].val[i].id = u
         /\ res[c].val[i] = StoredNode(db, u).item
         /\ res[c].val[i].player.datetime = op[k].game.datetime
         /\ res[c].val[i].player # DefaultPlayer

\* the indices on the stored path of index
OnPath(elements, index) == {Path(elements, index)[n] : n \in 1..Len(Path(elements, index))}

(***************************************************************************)
(* C31: find(k) writes only parent pointers of the nodes on the path from  *)
(* k to its root that are not the root: each of them names its former      *)
(* grandparent afterwards. No item and no rank changes, no node off the    *)
(* path changes, and every node of the forest has the same root after the  *)
(* call as before.                                                         *)
(***************************************************************************)
C31_FindFrame ==
  [][\A k \in Indices(MaxKeys) :
       (Finds(k) /\ Rooted(db, k)) =>
         /\ DOMAIN db' = DOMAIN db
         /\ LET path == OnPath(db, k) IN \A i \in DOMAIN db :
              /\ db'[i].item = db[i].item
              /\ db'[i].rank = db[i].rank
              /\ (i \notin path \/ is_root(db[i], i)) => db'[i] = db[i]
              /\ (i \in path /\ ~is_root(db[i], i)) =>
                   db'[i].parent_index = db[db[i].parent_index].parent_index
              /\ RootOf(db', i) = RootOf(db, i)]_vars

\* find(k) has run on a path of three links or more, and a node that the
\* call has taken off the path of k still hangs in the tree of k
C31_Witness ==
  \E k \in Indices(MaxKeys), j \in Indices(MaxKeys) :
    /\ op["c1"] = FindOp(k, 1)
    /\ res["c1"].tag = "ok"
    /\ Links(db, k) = 2
    /\ j \notin OnPath(db, k)
    /\ Links(db, j) = 2
    /\ RootOf(db, j) = RootOf(db, k)

(***************************************************************************)
(* C32: merge(a, b) on two different roots attaches the root of lower rank *)
(* under the root of higher rank, the right root under the left one when   *)
(* the ranks are equal; the surviving root's item becomes                  *)
(* merge_op(child item, parent item) and no other item changes; the        *)
(* surviving root's rank grows by 1 when the two ranks were equal and not  *)
(* at all otherwise, and no other rank changes; both roots are written.    *)
(* When a and b have one root already no item and no rank changes.         *)
(***************************************************************************)
C32_UnionByRank ==
  [][\A a \in Indices(MaxMergeKeys), b \in Indices(MaxMergeKeys) :
       (Merges(a, b) /\ res'["c1"].tag = "ok") =>
         LET ra == RootOf(db, a)
             rb == RootOf(db, b)
             parent == IF db[ra].rank < db[rb].rank THEN rb ELSE ra
             child == IF db[ra].rank < db[rb].rank THEN ra ELSE rb
         IN IF ra = rb
              THEN \A i \in DOMAIN db : /\ db'[i].item = db[i].item
                                        /\ db'[i].rank = db[i].rank
              ELSE /\ db'[child].parent_index = parent
                   /\ is_root(db'[parent], parent)
                   /\ db'[parent].item = merge_op(db[child].item, db[parent].item)
                   /\ db'[parent].rank =
                        IF db[ra].rank = db[rb].rank THEN db[parent].rank + 1
                                                     ELSE db[parent].rank
                   /\ db'[parent] # db[parent]
                   /\ db'[child] # db[child]
                   /\ \A i \in DOMAIN db \ {parent} :
                        /\ db'[i].item = db[i].item
                        /\ db'[i].rank = db[i].rank]_vars

\* merge(a, b) has put the root of a, of rank 0, under the root b, whose
\* rank 1 has stayed: the item of a stands in front of the two items that b
\* held from the merge that gave it its rank
C32_Witness ==
  \E a \in Indices(MaxMergeKeys), b \in Indices(MaxMergeKeys) :
    /\ op["c1"] = MergeOp(a, b, 1)
    /\ res["c1"].tag = "ok"
    /\ a # b
    /\ db[a].parent_index = b
    /\ is_root(db[b], b)
    /\ db[a].rank = 0
    /\ db[b].rank = 1
    /\ Len(db[b].item) = 3
    /\ db[b].item[1] = a
    /\ db[a].item = <<a>>

(***************************************************************************)
(* find, set and merge on a store whose nodes are all roots                *)
(***************************************************************************)
MaxForestKeys == 4

\* the item that set stores: none of the items the store starts with
NewItem == <<MaxForestKeys>>

SetOp(index, item, runs) ==
  [kind |-> "set", index |-> index, item |-> item, runs |-> runs]

\* Set::run that writes the node under the index it was asked for
Set_run_elements_asked(elements, index, item) ==
  LET f == Find_run(elements, index)
  IN IF ~f.ok THEN f
     ELSE LET node == [f.node EXCEPT !.item = item]
          IN [ok |-> TRUE, node |-> node,
              elements |-> set_node(f.elements, index, node)]

\* Set::run on the elements of a MemoryStoreCtx
Set_run_elements(elements, index, item) ==
  LET f == Find_run(elements, index)
  IN IF ~f.ok THEN f
     ELSE LET node == [f.node EXCEPT !.item = item]
          IN [ok |-> TRUE, node |-> node,
              elements |-> set_node(f.elements, node.parent_index, node)]

\* store.run(&set(index, item)): the transaction returns ()
run_set(index, item) ==
  LET r == Set_run_elements(db, index, item)
  IN /\ db' = IF r.ok THEN r.elements ELSE db
     /\ op' = [op EXCEPT !["c1"] = SetOp(index, item, 1)]
     /\ res' = [res EXCEPT !["c1"] = IF r.ok THEN Ok(<<>>) ELSE Err(r.err, <<r.key>>)]
     /\ UNCHANGED <<pc, ctx, pipe, watched, dirty, retries, budget, uids>>

\* simple_store: every node is Mergeable::new(its own index, item)
InitForest ==
  InitWith(MemoryStore(MaxForestKeys, [i \in Indices(MaxForestKeys) |-> i]), {}, 0)

RunFindForest == \E index \in 0..MaxForestKeys : run_find(index)

RunMergeForest ==
  \E left_index, right_index \in 0..MaxForestKeys : run_merge(left_index, right_index)

RunSet == \E index \in 0..MaxForestKeys : run_set(index, NewItem)

NextForest ==
  \/ RunFindForest
  \/ RunMergeForest
  \/ RunSet

SpecForest == InitForest /\ [][NextForest]_vars

RECURSIVE Ancestor(_, _, _)
\* the node reached from index over n parent links (index itself when its
\* parent holds no node)
Ancestor(elements, index, n) ==
  IF n = 0 \/ elements[index].parent_index \notin DOMAIN elements
    THEN index
    ELSE Ancestor(elements, elements[index].parent_index, n - 1)

(***************************************************************************)
(* C33: from a forest in which every node is its own root, every sequence  *)
(* of find, set and merge keeps the forest acyclic: following the parent   *)
(* links of any node reaches a node that is its own parent, and every node *)
(* that is not a root has a rank strictly lower than its parent's rank.    *)
(***************************************************************************)
C33_Acyclic ==
  \A i \in DOMAIN db :
    /\ db[i].parent_index \in DOMAIN db
    /\ LET root == Ancestor(db, i, MaxForestKeys) IN is_root(db[root], root)
    /\ ~is_root(db[i], i) => db[i].rank < db[db[i].parent_index].rank

\* all nodes hang directly under one root of rank 2, so the path of two
\* links that a tree of rank 2 starts with has been shortened, a set has
\* replaced the item of the root, and the last transaction was a find
C33_Witness ==
  \E r \in DOMAIN db :
    /\ \A i \in DOMAIN db : db[i].parent_index = r
    /\ db[r].rank = 2
    /\ db[r].item = NewItem
    /\ op["c1"].kind = "find"

\* the step runs set(index, item) on the store
Sets(index, item) ==
  /\ op'["c1"] = SetOp(index, item, 1)
  /\ op' # op

(***************************************************************************)
(* C34: set(k, v) replaces the item of the root of k's tree by v and       *)
(* writes that node under the root's key with its parent pointer and rank  *)
(* unchanged; afterwards find(k') returns v for every k' of the same tree, *)
(* and the item of every node in other trees is unchanged.                 *)
(***************************************************************************)
C34_SetWritesRoot ==
  [][\A k \in Indices(MaxForestKeys) :
       (Sets(k, NewItem) /\ res'["c1"].tag = "ok") =>
         LET root == RootOf(db, k)
         IN /\ db'[root] = [db[root] EXCEPT !.item = NewItem]
            /\ \A i \in DOMAIN db :
                 /\ RootOf(db, i) = root =>
                      /\ RootOf(db', i) = root
                      /\ Item(Find_run(db', i)) = Ok(<<NewItem>>)
                 /\ RootOf(db, i) # root => db'[i].item = db[i].item]_vars

\* set(k, v) has run on a node k that is not a root, in a tree of rank 1,
\* and another tree holds a merged item
C34_Witness ==
  \E k \in DOMAIN db, i \in DOMAIN db :
    /\ op["c1"] = SetOp(k, NewItem, 1)
    /\ res["c1"] = Ok(<<>>)
    /\ ~is_root(db[k], k)
    /\ db[RootOf(db, k)].item = NewItem
    /\ db[RootOf(db, k)].rank = 1
    /\ RootOf(db, i) # RootOf(db, k)
    /\ Len(db[RootOf(db, i)].item) = 2

(***************************************************************************)
(* Find::run one iteration at a time                                       *)
(***************************************************************************)
MaxWalkKeys == 4

\* the local variables of Find::run and the write_elements of the context
WalkCtx(write_elements, index, node) ==
  Ctx(write_elements, <<>>, <<>>, <<>>, index, node, <<>>)

\* store.run(&find(index)) up to the loop: the context copies the elements
\* and get_node(&index) answers
Find_run_enter(index) ==
  /\ pc["c1"] \in {"idle", "done"}
  /\ op' = [op EXCEPT !["c1"] = FindOp(index, 1)]
  /\ IF index \notin DOMAIN db
       THEN /\ pc' = [pc EXCEPT !["c1"] = "done"]
            /\ ctx' = [ctx EXCEPT !["c1"] = EmptyCtx]
            /\ res' = [res EXCEPT !["c1"] = Err("MissingEntryError", <<index>>)]
       ELSE /\ pc' = [pc EXCEPT !["c1"] = "walk"]
            /\ ctx' = [ctx EXCEPT !["c1"] = WalkCtx(db, index, db[index])]
            /\ res' = [res EXCEPT !["c1"] = NoRes]
  /\ UNCHANGED <<db, pipe, watched, dirty, retries, budget, uids>>

\* an iteration that writes the shortened node and stays at its index
Find_run_loop_stay ==
  /\ pc["c1"] = "walk"
  /\ LET index == ctx["c1"].index
         node == ctx["c1"].node
         write_elements == ctx["c1"].cache
     IN IF is_root(node, index)
          THEN /\ pc' = [pc EXCEPT !["c1"] = "done"]
               /\ res' = [res EXCEPT !["c1"] = Ok(<<node.item>>)]
               /\ db' = write_elements
               /\ ctx' = [ctx EXCEPT !["c1"] = EmptyCtx]
        ELSE IF node.parent_index \notin DOMAIN write_elements
          THEN /\ pc' = [pc EXCEPT !["c1"] = "done"]
               /\ res' = [res EXCEPT !["c1"] = Err("NoParentError", <<index>>)]
               /\ ctx' = [ctx EXCEPT !["c1"] = EmptyCtx]
               /\ UNCHANGED db
        ELSE LET parent_index == node.parent_index
                 parent == write_elements[parent_index]
                 halved == [node EXCEPT !.parent_index = parent.parent_index]
             IN /\ ctx' = [ctx EXCEPT !["c1"] =
                             WalkCtx(set_node(write_elements, index, halved),
                                     index, halved)]
                /\ UNCHANGED <<db, pc, res>>
  /\ UNCHANGED <<op, pipe, watched, dirty, retries, budget, uids>>

\* the test of the while loop of Find::run and one iteration of its body, or
\* the return of the root; MemoryStore::run keeps the written elements when
\* the transaction returns Ok
Find_run_loop ==
  /\ pc["c1"] = "walk"
  /\ LET index == ctx["c1"].index
         node == ctx["c1"].node
         write_elements == ctx["c1"].cache
     IN IF is_root(node, index)
          THEN /\ pc' = [pc EXCEPT !["c1"] = "done"]
               /\ res' = [res EXCEPT !["c1"] = Ok(<<node.item>>)]
               /\ db' = write_elements
               /\ ctx' = [ctx EXCEPT !["c1"] = EmptyCtx]
        ELSE IF node.parent_index \notin DOMAIN write_elements
          THEN /\ pc' = [pc EXCEPT !["c1"] = "done"]
               /\ res' = [res EXCEPT !["c1"] = Err("NoParentError", <<index>>)]
               /\ ctx' = [ctx EXCEPT !["c1"] = EmptyCtx]
               /\ UNCHANGED db
        ELSE LET parent_index == node.parent_index
                 parent == write_elements[parent_index]
                 halved == [node EXCEPT !.parent_index = parent.parent_index]
             IN /\ ctx' = [ctx EXCEPT !["c1"] =
                             WalkCtx(set_node(write_elements, index, halved),
                                     parent_index, parent)]
                /\ UNCHANGED <<db, pc, res>>
  /\ UNCHANGED <<op, pipe, watched, dirty, retries, budget, uids>>

InitWalk == \E elements \in Forests(MaxWalkKeys) : InitWith(elements, {}, 0)

EnterFind == \E index \in 0..MaxWalkKeys : Find_run_enter(index)

NextWalk ==
  \/ EnterFind
  \/ Find_run_loop

\* the thread that runs the transaction goes on running: an iteration that
\* can be taken is taken
SpecWalk == InitWalk /\ [][NextWalk]_vars /\ WF_vars(Find_run_loop)

(***************************************************************************)
(* C35: find(k) terminates for every key k of every finite acyclic forest: *)
(* the walk over the parent links reaches a root after finitely many       *)
(* iterations, and the call returns a value or one of the two errors.      *)
(***************************************************************************)
C35_FindTerminates ==
  (pc["c1"] = "walk") ~>
    (/\ pc["c1"] = "done"
     /\ \/ res["c1"].tag = "ok"
        \/ /\ res["c1"].tag = "err"
           /\ res["c1"].err \in {"MissingEntryError", "NoParentError"})

\* find(k) has returned the item of the root after three iterations or
\* more: k, which was three links from its root, is two links from it
C35_Witness ==
  \E k \in Indices(MaxWalkKeys) :
    /\ pc["c1"] = "done"
    /\ op["c1"] = FindOp(k, 1)
    /\ res["c1"] = Ok(<<db[RootOf(db, k)].item>>)
    /\ Links(db, k) = 2
    /\ \A i \in DOMAIN db : Rooted(db, i)

(***************************************************************************)
(* User ids of a snapshot file that hold a ':'                             *)
(***************************************************************************)
ColonId == <<"1", ":", "2">>
ReplayIds == {ColonId, U2}

InitReplay == InitWith(EmptyMap, ReplayIds, MaxUserCalls)

SpecReplay == InitReplay /\ [][NextUsers]_vars

\* entry.split(':'): the number of splits and the last of them
splits_len(entry) == 1 + Cardinality({n \in 1..Len(entry) : entry[n] = ":"})

splits_last(entry) ==
  LET colons == {n \in 1..Len(entry) : entry[n] = ":"}
      last == IF colons = {} THEN 0
              ELSE CHOOSE n \in colons : \A m \in colons : m <= n
  IN SubSeq(entry, last + 1, Len(entry))

\* query_user_index: the user ids it takes from the entries of the name index
query_user_index_ids(entries) ==
  {splits_last(entry) : entry \in {e \in entries : splits_len(e) >= 2}}

(***************************************************************************)
(* C36: index entries always resolve. In every reachable state each user   *)
(* id in the user-id set, and each user id that query_user_index takes     *)
(* from the name index, has a user key, and each game id in the games zset *)
(* or in a per-user games zset has a game key, so the second read of       *)
(* get_leaderboard, query_user, list_games and get_recent_games finds      *)
(* every record it asks for.                                               *)
(***************************************************************************)
C36_IndexResolves ==
  /\ \A u \in SMembers(db, user_id_key(Grp)) : HasUser(db, u)
  /\ \A u \in query_user_index_ids(Members(db, user_name_index_key(Grp))) : HasUser(db, u)
  /\ \A g \in Members(db, games_key(Grp)) : HasGame(db, g)
  /\ \A u \in uids : \A g \in Members(db, user_games_key(Grp, u)) : HasGame(db, g)

(***************************************************************************)
(* C38: an attempt can be aborted only by a change to a key WATCHed in     *)
(* that same attempt: whenever commit has returned, with success, with a   *)
(* body error such as NotFound or UserAlreadyExists, or after an empty     *)
(* pipeline, no key remains WATCHed on the connection, so no watch is      *)
(* carried over to the next transaction that uses the connection.          *)
(***************************************************************************)
C38_NoWatchCarriedOver ==
  \A c \in Clients : pc[c] = "done" => watched[c] = {}

\* create_user has been aborted once although its user key, the one key it
\* has WATCHed, has never been written
SpuriousAbort ==
  \E c \in Clients :
    /\ op[c] # NoOp
    /\ op[c].kind = "create_user"
    /\ retries[c] = 1
    /\ ~HasUser(db, op[c].user_id)

(***************************************************************************)
(* The user operations on connections that go on running: no call is       *)
(* dropped, and a step that a connection can take is taken                 *)
(***************************************************************************)
MaxFairCalls == 3

InitFair == InitWith(EmptyMap, AsciiIds, MaxFairCalls)

NextFair ==
  \/ CreateUser
  \/ ReadUsers
  \/ CuWatch
  \/ CuScan
  \/ Watch
  \/ Get
  \/ ExecCommit
  \/ ExecAbort
  \/ Return

\* the steps of the call that runs on connection c
Runs(c) ==
  \/ create_user_watch(c)
  \/ create_user_scan(c)
  \/ get_node_watch(c)
  \/ get_node_get(c)
  \/ exec_commit(c)
  \/ exec_abort(c)

\* the executor polls every future that can proceed and the store answers
\* every command
SpecFair == InitFair /\ [][NextFair]_vars /\ \A c \in Clients : WF_vars(Runs(c))

\* the step sends the first WATCH of an attempt of commit! on connection c
FirstWatch(c) ==
  \/ pc[c] = "cu_watch" /\ pc'[c] = "cu_scan"
  \/ pc[c] = "watch" /\ pc'[c] = "get" /\ ctx[c].cache = EmptyMap

(***************************************************************************)
(* C37 (progress): under fair scheduling every commit returns: each        *)
(* attempt ends in the return of the call or in an abort, and the aborts   *)
(* end when the other connections stop writing the watched keys.           *)
(***************************************************************************)
C37_CommitReturns ==
  \A c \in Clients : (pc[c] \notin {"idle", "done"}) ~> (pc[c] = "done")

(***************************************************************************)
(* C37 (cause of an abort): whenever the EXEC of an attempt is aborted,    *)
(* some other transaction has committed a write since the attempt's WATCH: *)
(* when an attempt sends its first WATCH, the connection holds no watched  *)
(* key that was written before, which would abort the EXEC of the attempt  *)
(* without any later write.                                                *)
(***************************************************************************)
C37_AbortNeedsLaterCommit ==
  [][\A c \in Clients : FirstWatch(c) => ~dirty[c]]_vars

\* the stored timestamp of the Player of user u
PlayerTime(d, u) == StoredNode(d, u).item.player.datetime

\* the scores in the sorted set of the games of user u
Scores(d, u) ==
  LET key == user_games_key(Grp, u)
  IN IF key \in DOMAIN d THEN {d[key].v[g] : g \in DOMAIN d[key].v} ELSE {}

\* the stored timestamp of u is, in milliseconds, the largest score in the
\* games of u, or the epoch when u has no game
InSync(d, u) ==
  IF Scores(d, u) = {} THEN PlayerTime(d, u) = 0
  ELSE /\ timestamp_millis(PlayerTime(d, u)) \in Scores(d, u)
       /\ \A s \in Scores(d, u) : s <= timestamp_millis(PlayerTime(d, u))

(***************************************************************************)
(* C39 (as stated): the stored timestamp of a user's Player never          *)
(* decreases over any sequence of operations, and in every reachable state *)
(* it equals the largest score in that user's per-user games zset, or the  *)
(* epoch default when the user has no game.                                *)
(***************************************************************************)
C39_TimestampMonotone ==
  [][\A u \in uids :
       /\ HasUser(db, u) => PlayerTime(db', u) >= PlayerTime(db, u)
       /\ HasUser(db', u) => InSync(db', u)]_vars

(***************************************************************************)
(* C39 (amended): a step that is not the successful EXEC of a create_user  *)
(* with the id of an existing user u never lowers the stored timestamp of  *)
(* u and keeps it equal to the largest score in the games of u; a user     *)
(* that is created starts with the epoch default and no game; a            *)
(* create_user that commits with the id of an existing user puts the       *)
(* default Player, with the epoch timestamp, in place of the stored one    *)
(* and leaves the games of the user as they are.                           *)
(***************************************************************************)
C39_TimestampFrame ==
  [][\A u \in uids :
       /\ (HasUser(db', u) /\ ~HasUser(db, u)) => InSync(db', u)
       /\ HasUser(db, u) =>
            /\ HasUser(db', u)
            /\ IF CreatesUser(u)
                 THEN /\ StoredNode(db', u).item.player = DefaultPlayer
                      /\ Scores(db', u) = Scores(db, u)
                 ELSE /\ PlayerTime(db', u) >= PlayerTime(db, u)
                      /\ InSync(db, u) => InSync(db', u)]_vars

\* a create_game at a time before the stored timestamp of a participant has
\* ended in the panic of unwrap, and the participant keeps the timestamp of
\* the game played before, which is the largest score in its games
C39_Witness ==
  \E c \in Clients, u \in uids :
    /\ op[c].kind = "create_game"
    /\ res[c] = Panic
    /\ u \in Participants(op[c].game)
    /\ HasUser(db, u)
    /\ PlayerTime(db, u) > op[c].game.datetime
    /\ Scores(db, u) # {}
    /\ InSync(db, u)

(***************************************************************************)
(* User names that hold a ':'                                              *)
(***************************************************************************)
NameAbcD == <<"a", "b", "c", ":", "d">>
ColonNames == {NameAbc, NameAbcD}

CreateNamedUser ==
  \E c \in Clients, u \in uids : \E n \in ColonNames : create_user_call(c, u, n)

NextNames ==
  \/ CreateNamedUser
  \/ ReadUsers
  \/ CuWatch
  \/ CuScan
  \/ Watch
  \/ Get
  \/ ExecCommit
  \/ ExecAbort
  \/ Return
  \/ Abandon

SpecNames == InitUsers /\ [][NextNames]_vars

\* the group holds a user whose name is exactly name
HasName(d, name) ==
  \E u \in uids : HasUser(d, u) /\ StoredNode(d, u).item.name = name

(***************************************************************************)
(* C40: create_user fails with UserAlreadyExists only if the group already *)
(* contains a user whose name is exactly the requested name: an existing   *)
(* user with a different name, for example the requested name followed by  *)
(* ':' and further characters, does not prevent the creation.              *)
(***************************************************************************)
C40_ExactNameOnly ==
  [][\A c \in Clients :
       (/\ op[c].kind = "create_user"
        /\ pc[c] = "cu_scan"
        /\ res'[c] = Err("UserAlreadyExists", <<>>))
       => HasName(db, op[c].name)]_vars

====
